---- MODULE Spec2Model ----
(***************************************************************************)
(* Model of the CIP Map filter engine (js/filters.js), the fiscal-year     *)
(* date inference of the data module and the filtered-view driver, of the  *)
(* row parser with the location editor (js/location-editor.js) and of the  *)
(* hexagonal grid of the location picker (js/user.js).                     *)
(*                                                                         *)
(* JavaScript strings that the code inspects character by character are    *)
(* sequences of one-character strings.  A nullable value is a sequence of  *)
(* length at most one: None is null, Some(x) is the value x.               *)
(***************************************************************************)
EXTENDS Integers, Sequences, FiniteSets, TLC

VARIABLES
    project,          \* matchesFilters: argument `project`
    filterCriteria,   \* matchesFilters: argument `filterCriteria`
    config,           \* the configuration object (getConfig())
    tz,               \* local time zone offset of the browser, in hours
    result,           \* matchesFilters: returned value, None before the call
    fiscalYear,       \* inferDateFromFiscalYear: argument `fiscalYear`
    type,             \* inferDateFromFiscalYear: argument `type`
    inferred,         \* inferDateFromFiscalYear: <<returned value>>, <<>> before
    projects,         \* data module: let projects
    filteredProjects, \* data module: let filteredProjects
    filters,          \* filters module: let filters
    fundingYearBounds, \* filters module: let fundingYearBounds
    timelineBounds,   \* filters module: let timelineBounds
    onFiltersChanged, \* filters module: whether the callback is registered
    sliderInputs,     \* values of the four range <input> elements
    rendered,         \* the view the onFiltersChanged callback rendered last
    pc,               \* position of main.js init(): start, loaded, ready
    csvRows,          \* loadProjects: results.data of the CSV parser
    inputRow,         \* parseProject: argument `row`
    parsed,           \* parseProject: <<returned value>>, <<>> before
    showOnlyNoLocation, \* location-editor module: let showOnlyNoLocation
    isLocationEditMode, \* location-editor module: let isLocationEditMode
    projectToAssign,  \* location-editor module: let projectToAssign
    modifiedLocations, \* location-editor module: let modifiedLocations
    assignResult,     \* assignLocation: returned value, None before the call
    pickerConfig,     \* user module: pickerConfig of the location picker
    hexagons,         \* user module: let hexagons
    hexLookup,        \* hexIdToCenter: <<hexId, returned value>>, <<>> before
    storedLocation,   \* hexIdToCenter of a stored hex_location: <<hexId,
                      \* returned value>>, <<>> before
    userVotes,        \* votes module: let userVotes, the entries in key order
    userComments,     \* votes module: let userComments, in key order
    cookieJar,        \* the cookies of the page: <<[name, value], ...>>
    voteResult,       \* upvote/downvote: <<projectId, returned value,
                      \* vote POSTed to the API server>>
    loadOutcome,      \* loadVotesAndComments: Some("ok") or Some(exception)
    clock,            \* new Date(): seconds since the page was opened
    apiConfig,        \* config.apiServer and getUser()?.userId
    recoverRuns,      \* recoverVotesToServer: the locals of every call so far
    requests,         \* the POSTs of recoverVotesToServer, with their outcome
    calls,            \* number of calls of recoverVotesToServer so far
    commentProjectId, \* comment-dialog module: let commentProjectId
    dialogHidden,     \* #commentDialog.hidden
    previousComments, \* content of #previousComments
    commentFetches    \* fetchCommentsFromApi calls awaiting their response

vars == <<project, filterCriteria, config, tz, result, fiscalYear, type,
          inferred, projects, filteredProjects, filters, fundingYearBounds,
          timelineBounds, onFiltersChanged, sliderInputs, rendered, pc,
          csvRows, inputRow, parsed, showOnlyNoLocation, isLocationEditMode,
          projectToAssign, modifiedLocations, assignResult, pickerConfig,
          hexagons,
          hexLookup, storedLocation, userVotes, userComments, cookieJar,
          voteResult, loadOutcome, clock, apiConfig, recoverRuns, requests,
          calls, commentProjectId, dialogHidden, previousComments,
          commentFetches>>

matchVars == <<project, filterCriteria, config, tz, result>>
inferVars == <<fiscalYear, type, inferred>>
appVars == <<projects, filteredProjects, filters, fundingYearBounds,
            timelineBounds, onFiltersChanged, sliderInputs, rendered, pc,
            csvRows>>
editorVars == <<showOnlyNoLocation, isLocationEditMode, projectToAssign,
               modifiedLocations, assignResult>>
parseVars == <<inputRow, parsed, editorVars>>
hexVars == <<pickerConfig, hexagons, hexLookup, storedLocation>>
voteVars == <<userVotes, userComments, cookieJar, voteResult, loadOutcome,
             clock>>
recoverVars == <<apiConfig, recoverRuns, requests, calls>>
dialogVars == <<commentProjectId, dialogHidden, previousComments,
               commentFetches>>
socialVars == <<voteVars, recoverVars, dialogVars>>
coreVars == <<matchVars, inferVars, appVars, parseVars, hexVars>>

None == <<>>
Some(x) == <<x>>

----------------------------------------------------------------------------
(* JavaScript string primitives *)

Digits == {"0", "1", "2", "3", "4", "5", "6", "7", "8", "9"}

DigitVal(c) ==
    CASE c = "0" -> 0 [] c = "1" -> 1 [] c = "2" -> 2 [] c = "3" -> 3
      [] c = "4" -> 4 [] c = "5" -> 5 [] c = "6" -> 6 [] c = "7" -> 7
      [] c = "8" -> 8 [] c = "9" -> 9

DigitChar(n) ==
    CASE n = 0 -> "0" [] n = 1 -> "1" [] n = 2 -> "2" [] n = 3 -> "3"
      [] n = 4 -> "4" [] n = 5 -> "5" [] n = 6 -> "6" [] n = 7 -> "7"
      [] n = 8 -> "8" [] n = 9 -> "9"

\* String.prototype.toLowerCase on one character
LowerChar(c) ==
    LET upper == <<"A", "B", "C", "D", "E", "F", "G", "H", "I", "J", "K", "L",
                   "M", "N", "O", "P", "Q", "R", "S", "T", "U", "V", "W", "X",
                   "Y", "Z">>
        lower == <<"a", "b", "c", "d", "e", "f", "g", "h", "i", "j", "k", "l",
                   "m", "n", "o", "p", "q", "r", "s", "t", "u", "v", "w", "x",
                   "y", "z">>
    IN  IF \E i \in 1..26 : upper[i] = c
        THEN lower[CHOOSE i \in 1..26 : upper[i] = c]
        ELSE c

toLowerCase(s) == [i \in 1..Len(s) |-> LowerChar(s[i])]

\* String.prototype.includes
includes(s, sub) ==
    \E i \in 0..(Len(s) - Len(sub)) : SubSeq(s, i + 1, i + Len(sub)) = sub

\* parseInt(digits, 10) on a non-empty run of decimal digits
RECURSIVE parseInt(_)
parseInt(ds) ==
    IF ds = <<>> THEN 0
    ELSE 10 * parseInt(SubSeq(ds, 1, Len(ds) - 1)) + DigitVal(ds[Len(ds)])

\* String(n) for a natural number n
RECURSIVE NumberToString(_)
NumberToString(n) ==
    IF n < 10 THEN <<DigitChar(n)>>
    ELSE NumberToString(n \div 10) \o <<DigitChar(n % 10)>>

\* fy.match(/\d+/): the leftmost maximal run of digits, None when there is none
MatchDigits(s) ==
    IF \A i \in 1..Len(s) : s[i] \notin Digits THEN None
    ELSE LET first == CHOOSE i \in 1..Len(s) :
                          /\ s[i] \in Digits
                          /\ \A j \in 1..(i - 1) : s[j] \notin Digits
             last == CHOOSE k \in first..Len(s) :
                          /\ \A j \in first..k : s[j] \in Digits
                          /\ (k = Len(s) \/ s[k + 1] \notin Digits)
         IN  Some(SubSeq(s, first, last))

----------------------------------------------------------------------------
(* Date: new Date(str).getFullYear() *)

IsDigits(s) == \A i \in 1..Len(s) : s[i] \in Digits

\* The date-only ISO form YYYY-MM-DD; any other text is an Invalid Date here
IsIsoDate(s) ==
    /\ Len(s) = 10
    /\ s[5] = "-" /\ s[8] = "-"
    /\ IsDigits(SubSeq(s, 1, 4)) /\ IsDigits(SubSeq(s, 6, 7))
    /\ IsDigits(SubSeq(s, 9, 10))
    /\ parseInt(SubSeq(s, 6, 7)) \in 1..12
    /\ parseInt(SubSeq(s, 9, 10)) \in 1..31

\* A date-only ISO string is midnight UTC; getFullYear() reads the year in
\* local time, which is offset hours away (-12 < offset < 14).  Before
\* midnight UTC of January 1 the local date is still December 31.
\* None is NaN.
getFullYear(s, offset) ==
    IF ~IsIsoDate(s) THEN None
    ELSE LET y == parseInt(SubSeq(s, 1, 4))
             m == parseInt(SubSeq(s, 6, 7))
             d == parseInt(SubSeq(s, 9, 10))
         IN  IF offset < 0 /\ m = 1 /\ d = 1 THEN Some(y - 1) ELSE Some(y)

\* truthiness of a number that may be null or NaN
TruthyNum(n) == n # None /\ n[1] # 0

\* truthiness of a string that may be null
TruthyStr(s) == s # None /\ s[1] # <<>>

----------------------------------------------------------------------------
(* matchesFilters *)

Future == <<"F", "u", "t", "u", "r", "e">>

\* project.fundingYears[fy] || 0
FundingOf(p, fy) ==
    IF fy \in DOMAIN p.fundingYears THEN p.fundingYears[fy] ELSE 0

\* mutant: the lower bound of the range is exclusive
FundedInRangeExclusiveMin(p, fy, min, max) ==
    IF fy = Future
    THEN max >= 9999 /\ FundingOf(p, Future) > 0
    ELSE LET match == MatchDigits(fy)
         IN  IF match = None THEN FALSE
             ELSE LET year == parseInt(match[1]) + 2000
                  IN  year > min /\ year <= max /\ FundingOf(p, fy) > 0

\* the callback of config.fundingYears.some(...)
FundedInRange(p, fy, min, max) ==
    IF fy = Future
    THEN max >= 9999 /\ FundingOf(p, Future) > 0
    ELSE LET match == MatchDigits(fy)
         IN  IF match = None THEN FALSE
             ELSE LET year == parseInt(match[1]) + 2000
                  IN  year >= min /\ year <= max /\ FundingOf(p, fy) > 0

\* mutant: the project fields are compared without lowercasing them
SearchStageCaseSensitive(p, c) ==
    IF c.search # <<>>
    THEN LET searchStr == toLowerCase(c.search)
         IN  \/ includes(p.name, searchStr)
             \/ (TruthyStr(p.description)
                   /\ includes(p.description[1], searchStr))
             \/ (TruthyStr(p.locationName)
                   /\ includes(p.locationName[1], searchStr))
    ELSE TRUE

SearchStage(p, c) ==
    IF c.search # <<>>
    THEN LET searchStr == toLowerCase(c.search)
         IN  \/ includes(toLowerCase(p.name), searchStr)
             \/ (TruthyStr(p.description)
                   /\ includes(toLowerCase(p.description[1]), searchStr))
             \/ (TruthyStr(p.locationName)
                   /\ includes(toLowerCase(p.locationName[1]), searchStr))
    ELSE TRUE

\* mutant: only the first listed value is compared
InListFirst(list, v) == Len(list) > 0 /\ list[1] = v

InList(list, v) == \E i \in 1..Len(list) : list[i] = v

\* mutant: the length test is dropped, an empty list rejects every project
TypeStageNoEmptyCheck(p, c) == InList(c.types, p.type)

TypeStage(p, c) == ~(Len(c.types) > 0 /\ ~InList(c.types, p.type))

StatusStage(p, c) == ~(Len(c.statuses) > 0 /\ ~InList(c.statuses, p.status))

PriorityStage(p, c) ==
    ~(Len(c.priorities) > 0 /\ ~InList(c.priorities, p.priority))

\* mutant: a project without funding is filtered like any other
FundingStageNoZeroPass(p, c, cfg) ==
    IF c.fundingYearRange # None
    THEN \E i \in 1..Len(cfg.fundingYears) :
            FundedInRange(p, cfg.fundingYears[i], c.fundingYearRange[1].min,
                          c.fundingYearRange[1].max)
    ELSE TRUE

FundingStage(p, c, cfg) ==
    IF c.fundingYearRange # None
    THEN LET min == c.fundingYearRange[1].min
             max == c.fundingYearRange[1].max
             hasFundingInRange ==
                 \E i \in 1..Len(cfg.fundingYears) :
                     FundedInRange(p, cfg.fundingYears[i], min, max)
         IN  ~(~hasFundingInRange /\ p.totalFunding > 0)
    ELSE TRUE

\* mutant: the isOngoing test is dropped
TimelineStageOngoingToo(p, c, offset) ==
    IF c.timelineRange # None
    THEN LET min == c.timelineRange[1].min
             max == c.timelineRange[1].max
             projectStart == IF TruthyStr(p.startDate)
                             THEN getFullYear(p.startDate[1], offset)
                             ELSE None
             projectEnd == IF TruthyStr(p.endDate)
                           THEN getFullYear(p.endDate[1], offset)
                           ELSE None
         IN  IF TruthyNum(projectStart) /\ TruthyNum(projectEnd)
             THEN ~(projectEnd[1] < min \/ projectStart[1] > max)
             ELSE IF TruthyNum(projectStart)
             THEN ~(projectStart[1] > max)
             ELSE IF TruthyNum(projectEnd)
             THEN ~(projectEnd[1] < min)
             ELSE TRUE
    ELSE TRUE

TimelineStage(p, c, offset) ==
    IF c.timelineRange # None /\ ~p.isOngoing
    THEN LET min == c.timelineRange[1].min
             max == c.timelineRange[1].max
             projectStart == IF TruthyStr(p.startDate)
                             THEN getFullYear(p.startDate[1], offset)
                             ELSE None
             projectEnd == IF TruthyStr(p.endDate)
                           THEN getFullYear(p.endDate[1], offset)
                           ELSE None
         IN  IF TruthyNum(projectStart) /\ TruthyNum(projectEnd)
             THEN ~(projectEnd[1] < min \/ projectStart[1] > max)
             ELSE IF TruthyNum(projectStart)
             THEN ~(projectStart[1] > max)
             ELSE IF TruthyNum(projectEnd)
             THEN ~(projectEnd[1] < min)
             ELSE TRUE
    ELSE TRUE

\* mutant: an ongoing project that passes the search is accepted at once
matchesFiltersOngoingShortcut(p, c, cfg, offset) ==
    IF ~SearchStage(p, c) THEN FALSE
    ELSE IF p.isOngoing THEN TRUE
    ELSE IF ~TypeStage(p, c) THEN FALSE
    ELSE IF ~StatusStage(p, c) THEN FALSE
    ELSE IF ~PriorityStage(p, c) THEN FALSE
    ELSE IF ~FundingStage(p, c, cfg) THEN FALSE
    ELSE IF ~TimelineStage(p, c, offset) THEN FALSE
    ELSE TRUE

\* the stages in source order, each returning false at its first failure
matchesFilters(p, c, cfg, offset) ==
    IF ~SearchStage(p, c) THEN FALSE
    ELSE IF ~TypeStage(p, c) THEN FALSE
    ELSE IF ~StatusStage(p, c) THEN FALSE
    ELSE IF ~PriorityStage(p, c) THEN FALSE
    ELSE IF ~FundingStage(p, c, cfg) THEN FALSE
    ELSE IF ~TimelineStage(p, c, offset) THEN FALSE
    ELSE TRUE

----------------------------------------------------------------------------
(* inferDateFromFiscalYear *)

\* fiscalYear.match(/FY(\d{2})/i): the two digits captured by the leftmost
\* match, None when the pattern occurs nowhere in the string
MatchFY(s) ==
    LET at(i) == /\ i + 3 <= Len(s)
                 /\ LowerChar(s[i]) = "f"
                 /\ LowerChar(s[i + 1]) = "y"
                 /\ s[i + 2] \in Digits
                 /\ s[i + 3] \in Digits
    IN  IF \E i \in 1..Len(s) : at(i)
        THEN LET first == CHOOSE i \in 1..Len(s) :
                              at(i) /\ \A j \in 1..(i - 1) : ~at(j)
             IN  Some(SubSeq(s, first + 2, first + 3))
        ELSE None

\* mutant: every two-digit year is taken to be 20xx
FullYearAlways2000(shortYear) == 2000 + shortYear

\* mutant: every two-digit year is taken to be 19xx
FullYearAlways1900(shortYear) == 1900 + shortYear

\* shortYear < 50 ? 2000 + shortYear : 1900 + shortYear
FullYear(shortYear) ==
    IF shortYear < 50 THEN 2000 + shortYear ELSE 1900 + shortYear

July1 == <<"-", "0", "7", "-", "0", "1">>
June30 == <<"-", "0", "6", "-", "3", "0">>

\* fy is null or a string, edge is the parameter `type`; returns null or a
\* date string
inferDateFromFiscalYear(fy, edge) ==
    IF ~TruthyStr(fy) \/ fy = Some(Future) THEN None
    ELSE LET match == MatchFY(fy[1])
         IN  IF match = None THEN None
             ELSE LET shortYear == parseInt(match[1])
                      fullYear == FullYear(shortYear)
                  IN  IF edge = "start"
                      THEN Some(NumberToString(fullYear - 1) \o July1)
                      ELSE Some(NumberToString(fullYear) \o June30)

----------------------------------------------------------------------------
(* parseProject: a CSV row is a record of nullable strings (None when the  *)
(* column is absent); row.funding holds the funding_* columns by name      *)

Whitespace == {" ", "\t", "\n", "\r"}

\* mutant: nothing is trimmed
trimNothing(s) == s

\* String.prototype.trim
RECURSIVE trim(_)
trim(s) ==
    IF s = <<>> THEN s
    ELSE IF s[1] \in Whitespace THEN trim(Tail(s))
    ELSE IF s[Len(s)] \in Whitespace THEN trim(SubSeq(s, 1, Len(s) - 1))
    ELSE s

\* s.replace(/[...]/g, '') for a set of characters
RemoveChars(s, chars) == SelectSeq(s, LAMBDA c : c \notin chars)

\* the characters of s before the first one outside `allowed`
RECURSIVE TakeWhile(_, _)
TakeWhile(s, allowed) ==
    IF s = <<>> \/ s[1] \notin allowed THEN <<>>
    ELSE <<s[1]>> \o TakeWhile(Tail(s), allowed)

\* parseFloat on text without fraction or exponent: leading white space, an
\* optional sign and the leading digits; None is NaN
parseFloat(str) ==
    LET t == trim(str)
        signed == t # <<>> /\ t[1] \in {"-", "+"}
        ds == TakeWhile(IF signed THEN Tail(t) ELSE t, Digits)
    IN  IF ds = <<>> THEN None
        ELSE IF signed /\ t[1] = "-" THEN Some(0 - parseInt(ds))
        ELSE Some(parseInt(ds))

parseCurrency(value) ==
    IF value = None \/ value[1] = <<>> THEN 0
    ELSE LET cleaned == RemoveChars(value[1], {"$", ","} \cup Whitespace)
             num == parseFloat(cleaned)
         IN  IF num = None THEN 0 ELSE num[1]

LowerAlnum ==
    Digits \cup {"a", "b", "c", "d", "e", "f", "g", "h", "i", "j", "k", "l",
                 "m", "n", "o", "p", "q", "r", "s", "t", "u", "v", "w", "x",
                 "y", "z"}

\* s.replace(/[^a-z0-9]+/g, '-')
RECURSIVE Dashed(_)
Dashed(s) ==
    IF s = <<>> THEN <<>>
    ELSE IF s[1] \in LowerAlnum THEN <<s[1]>> \o Dashed(Tail(s))
    ELSE IF Len(s) > 1 /\ s[2] \notin LowerAlnum THEN Dashed(Tail(s))
    ELSE <<"-">> \o Dashed(Tail(s))

generateId(name) ==
    LET d == Dashed(toLowerCase(name))
        a == IF d # <<>> /\ d[1] = "-" THEN Tail(d) ELSE d
    IN  IF a # <<>> /\ a[Len(a)] = "-" THEN SubSeq(a, 1, Len(a) - 1) ELSE a

\* s.split(',')
RECURSIVE split(_)
split(s) ==
    IF \A i \in 1..Len(s) : s[i] # ","
    THEN <<s>>
    ELSE LET k == CHOOSE k \in 1..Len(s) :
                      s[k] = "," /\ \A j \in 1..(k - 1) : s[j] # ","
         IN  <<SubSeq(s, 1, k - 1)>> \o split(SubSeq(s, k + 1, Len(s)))

\* year.replace('/', ''): the first slash only
RemoveFirstSlash(s) ==
    IF \A i \in 1..Len(s) : s[i] # "/" THEN s
    ELSE LET k == CHOOSE k \in 1..Len(s) :
                      s[k] = "/" /\ \A j \in 1..(k - 1) : s[j] # "/"
         IN  SubSeq(s, 1, k - 1) \o SubSeq(s, k + 1, Len(s))

FundingPrefix == <<"f", "u", "n", "d", "i", "n", "g", "_">>

\* `funding_${year.toLowerCase().replace('/', '')}`
FundingKey(year) == FundingPrefix \o RemoveFirstSlash(toLowerCase(year))

\* row[key] for a funding column
FundingColumn(row, key) ==
    IF key \in DOMAIN row.funding THEN Some(row.funding[key]) ELSE None

\* mutant: only positive amounts are added to totalFunding
RECURSIVE FundingLoopPositiveTotal(_, _, _, _)
FundingLoopPositiveTotal(row, years, i, acc) ==
    IF i > Len(years) THEN acc
    ELSE IF years[i] = Future
         THEN FundingLoopPositiveTotal(row, years, i + 1, acc)
    ELSE LET year == years[i]
             value == parseCurrency(FundingColumn(row, FundingKey(year)))
             funded == value > 0
         IN  FundingLoopPositiveTotal(row, years, i + 1,
               [fundingYears |->
                    (year :> value)
                      @@ [l \in DOMAIN acc.fundingYears \ {year}
                            |-> acc.fundingYears[l]],
                totalFunding |->
                    acc.totalFunding + (IF funded THEN value ELSE 0),
                firstFundedYear |->
                    IF funded /\ ~TruthyStr(acc.firstFundedYear)
                    THEN Some(year) ELSE acc.firstFundedYear,
                lastFundedYear |->
                    IF funded THEN Some(year) ELSE acc.lastFundedYear])

\* mutant: every funded label overwrites firstFundedYear
RECURSIVE FundingLoopFirstIsLast(_, _, _, _)
FundingLoopFirstIsLast(row, years, i, acc) ==
    IF i > Len(years) THEN acc
    ELSE IF years[i] = Future
         THEN FundingLoopFirstIsLast(row, years, i + 1, acc)
    ELSE LET year == years[i]
             value == parseCurrency(FundingColumn(row, FundingKey(year)))
             funded == value > 0
         IN  FundingLoopFirstIsLast(row, years, i + 1,
               [fundingYears |->
                    (year :> value)
                      @@ [l \in DOMAIN acc.fundingYears \ {year}
                            |-> acc.fundingYears[l]],
                totalFunding |-> acc.totalFunding + value,
                firstFundedYear |->
                    IF funded THEN Some(year) ELSE acc.firstFundedYear,
                lastFundedYear |->
                    IF funded THEN Some(year) ELSE acc.lastFundedYear])

\* the forEach over config.fundingYears, from label i on; acc carries
\* fundingYears, totalFunding, firstFundedYear and lastFundedYear
RECURSIVE FundingLoop(_, _, _, _)
FundingLoop(row, years, i, acc) ==
    IF i > Len(years) THEN acc
    ELSE IF years[i] = Future THEN FundingLoop(row, years, i + 1, acc)
    ELSE LET year == years[i]
             value == parseCurrency(FundingColumn(row, FundingKey(year)))
             funded == value > 0
         IN  FundingLoop(row, years, i + 1,
               [fundingYears |->
                    (year :> value)
                      @@ [l \in DOMAIN acc.fundingYears \ {year}
                            |-> acc.fundingYears[l]],
                totalFunding |-> acc.totalFunding + value,
                firstFundedYear |->
                    IF funded /\ ~TruthyStr(acc.firstFundedYear)
                    THEN Some(year) ELSE acc.firstFundedYear,
                lastFundedYear |->
                    IF funded THEN Some(year) ELSE acc.lastFundedYear])

\* mutant: the sentinel '*' yields null instead of the fallback
parseDateStarIsNull(value, fallback) ==
    IF value = Some(<<"*">>) THEN None
    ELSE IF ~TruthyStr(value) THEN fallback ELSE value

\* mutant: the sentinel '*' is kept like any other value
parseDateKeepStar(value, fallback) ==
    IF ~TruthyStr(value) THEN fallback ELSE value

\* the nested parseDate(value, fallback)
parseDate(value, fallback) ==
    IF ~TruthyStr(value) \/ value = Some(<<"*">>) THEN fallback ELSE value

\* value || null for a string
OrNull(value) == IF TruthyStr(value) THEN value ELSE None

\* value || fallback for a category name
OrDefault(value, fallback) ==
    IF value # None /\ value[1] # "" THEN value[1] ELSE fallback

\* mutant: the first entry whatever the index
ItemOrFirst(list, i, fallback) ==
    IF 1 <= Len(list) /\ list[1] # "" THEN list[1] ELSE fallback

\* list[i] || fallback
ItemOr(list, i, fallback) ==
    IF i <= Len(list) /\ list[i] # "" THEN list[i] ELSE fallback

\* returns None for null, Some(project) otherwise
parseProject(row, cfg) ==
    IF ~TruthyStr(row.name) \/ trim(row.name[1]) = <<>> THEN None
    ELSE
    LET loop == FundingLoop(row, cfg.fundingYears, 1,
                   [fundingYears |-> <<>>, totalFunding |-> 0,
                    firstFundedYear |-> None, lastFundedYear |-> None])
        futureFunding == parseCurrency(FundingColumn(row, FundingKey(Future)))
        fundingYears ==
            (Future :> futureFunding)
              @@ [l \in DOMAIN loop.fundingYears \ {Future}
                    |-> loop.fundingYears[l]]
        explicitTotalCost == parseCurrency(row.total_cost)
        hasExplicitTotalCost == explicitTotalCost > 0
        totalFunding == IF hasExplicitTotalCost THEN explicitTotalCost
                        ELSE loop.totalFunding + futureFunding
        firstFundedYear == loop.firstFundedYear
        lastFundedYear ==
            IF futureFunding > 0 /\ ~TruthyStr(loop.lastFundedYear)
            THEN Some(Future) ELSE loop.lastFundedYear
        fundingSource ==
            IF TruthyStr(row.funding_source)
            THEN SelectSeq([i \in 1..Len(split(row.funding_source[1]))
                              |-> trim(split(row.funding_source[1])[i])],
                           LAMBDA x : x # <<>>)
            ELSE <<>>
        isOngoing == \/ row.start_date = Some(<<"*">>)
                     \/ row.construction_start = Some(<<"*">>)
                     \/ row.end_date = Some(<<"*">>)
        inferredStartDate == inferDateFromFiscalYear(firstFundedYear, "start")
        inferredEndDate == inferDateFromFiscalYear(lastFundedYear, "end")
        defaultType == ItemOr(cfg.projectTypes, 1, "Other")
        defaultStatus == ItemOr(cfg.statusOptions, 1, "Planning")
        defaultPriority == ItemOr(cfg.priorityLevels, 3, "Medium")
    IN  Some([id |-> IF TruthyStr(row.id) THEN row.id[1]
                     ELSE generateId(row.name[1]),
              name |-> trim(row.name[1]),
              type |-> OrDefault(row.type, defaultType),
              status |-> OrDefault(row.status, defaultStatus),
              priority |-> OrDefault(row.priority, defaultPriority),
              description |-> OrNull(row.description),
              locationName |-> OrNull(row.location_name),
              lat |-> IF TruthyStr(row.lat) THEN Some(parseFloat(row.lat[1]))
                      ELSE None,
              lng |-> IF TruthyStr(row.lng) THEN Some(parseFloat(row.lng[1]))
                      ELSE None,
              hasLocation |-> TruthyStr(row.lat) /\ TruthyStr(row.lng),
              fundingYears |-> fundingYears,
              totalFunding |-> totalFunding,
              hasExplicitTotalCost |-> hasExplicitTotalCost,
              fundingSource |-> fundingSource,
              department |-> OrNull(row.department),
              startDate |-> parseDate(row.start_date, inferredStartDate),
              constructionStart |-> parseDate(row.construction_start, None),
              endDate |-> parseDate(row.end_date, inferredEndDate),
              isOngoing |-> isOngoing,
              link |-> OrNull(row.link)])

----------------------------------------------------------------------------
(* Inputs of matchesFilters *)

MinYear == 2024
MaxYear == 2028
FutureYear == 9999
MaxAmount == 5

FY25 == <<"F", "Y", "2", "5">>
FY26 == <<"F", "Y", "2", "6">>
FY27 == <<"F", "Y", "2", "7">>
Misc == <<"M", "i", "s", "c">>

\* YYYY-MM-DD for a four-digit year and two-digit month and day
IsoDate(y, m, d) ==
    NumberToString(y) \o <<"-">>
      \o (IF m < 10 THEN <<"0">> ELSE <<>>) \o NumberToString(m) \o <<"-">>
      \o (IF d < 10 THEN <<"0">> ELSE <<>>) \o NumberToString(d)

emptyFilters ==
    [search |-> <<>>, types |-> <<>>, statuses |-> <<>>, priorities |-> <<>>,
     fundingYearRange |-> None, timelineRange |-> None]

sampleConfig ==
    [projectTypes |-> <<"Transportation", "Parks", "Water">>,
     statusOptions |-> <<"Planning", "Design", "Completed">>,
     priorityLevels |-> <<"High", "Medium", "Low">>,
     fundingYears |-> <<FY25, FY26, FY27, Future>>]

Configs ==
    {sampleConfig,
     [sampleConfig EXCEPT !.fundingYears = <<FY25, Misc, FY26>>],
     [sampleConfig EXCEPT !.fundingYears = <<Future, FY27>>]}

TimeZones == {-5, 0, 9}

sampleProject ==
    [name |-> <<"M", "a", "i", "n">>,
     description |-> Some(<<"W", "i", "d", "e">>),
     locationName |-> Some(<<"D", "o", "w", "n">>),
     type |-> "Transportation", status |-> "Design", priority |-> "High",
     fundingYears |-> (FY25 :> MaxAmount) @@ (FY26 :> MaxAmount)
                        @@ (FY27 :> 0) @@ (Future :> 0),
     totalFunding |-> 2 * MaxAmount,
     startDate |-> Some(IsoDate(2025, 3, 1)),
     endDate |-> Some(IsoDate(2026, 12, 31)),
     isOngoing |-> FALSE]

Input(p, c, cfg, offset) ==
    [project |-> p, filterCriteria |-> c, config |-> cfg, tz |-> offset]

Names == {<<"M", "a", "i", "n">>, <<"B", "a", "y">>}
Descriptions == {None, Some(<<>>), Some(<<"W", "i", "d", "e">>)}
LocationNames == {None, Some(<<"D", "o", "w", "n">>)}
Searches ==
    {<<"m", "a">>, <<"M", "A", "I", "N">>, <<"w", "i", "d">>, <<"I", "D">>,
     <<"d", "o", "w", "n">>, <<"O", "w">>, <<"x">>, <<"a", "y">>,
     <<"n", "w">>, <<"m", "a", "i", "n", "s">>}

SearchInputs ==
    {Input([sampleProject EXCEPT !.name = n, !.description = d,
                                 !.locationName = l],
           [emptyFilters EXCEPT !.search = s], sampleConfig, 0) :
        <<n, d, l, s>> \in Names \X Descriptions \X LocationNames \X Searches}

Elems(S) == {S[i] : i \in 1..Len(S)}

\* lists of at most two distinct values of a category
CatLists(S) ==
    {<<>>} \cup {<<x>> : x \in S}
           \cup {<<x, y>> : <<x, y>> \in {q \in S \X S : q[1] # q[2]}}

CatCriteria ==
    {[emptyFilters EXCEPT !.types = l] :
        l \in CatLists(Elems(sampleConfig.projectTypes))}
    \cup {[emptyFilters EXCEPT !.statuses = l] :
        l \in CatLists(Elems(sampleConfig.statusOptions))}
    \cup {[emptyFilters EXCEPT !.priorities = l] :
        l \in CatLists(Elems(sampleConfig.priorityLevels))}

CatInputs ==
    {Input([sampleProject EXCEPT !.type = t, !.status = s, !.priority = p],
           c, sampleConfig, 0) :
        <<t, s, p, c>> \in Elems(sampleConfig.projectTypes)
                             \X Elems(sampleConfig.statusOptions)
                             \X Elems(sampleConfig.priorityLevels)
                             \X CatCriteria}

Years == MinYear..MaxYear
YearRanges(S) == {Some([min |-> a, max |-> b]) : <<a, b>> \in S \X S}
\* the ranges a dual slider can hold: min <= max
SliderRanges(S) ==
    {Some([min |-> q[1], max |-> q[2]]) : q \in {q \in S \X S : q[1] <= q[2]}}

Fundings ==
    [{FY25, FY26, Future, Misc} -> {0, MaxAmount}]
    \cup {(FY25 :> -1) @@ (FY26 :> 0) @@ (Future :> -1),
          (FY26 :> MaxAmount),
          (FY27 :> 1)}

FundingInputs ==
    {Input([sampleProject EXCEPT !.fundingYears = f, !.totalFunding = t],
           [emptyFilters EXCEPT !.fundingYearRange = r], cfg, 0) :
        <<f, t, r, cfg>> \in Fundings \X {0, MaxAmount, 4 * MaxAmount}
                               \X YearRanges((MinYear..(MinYear + 3))
                                                \cup {FutureYear})
                               \X Configs}

Dates ==
    {None, Some(IsoDate(MinYear + 1, 3, 1)), Some(IsoDate(MinYear + 2, 1, 1)),
     Some(IsoDate(MinYear + 2, 12, 31)), Some(IsoDate(MinYear + 3, 6, 30))}

TimelineInputs ==
    {Input([sampleProject EXCEPT !.startDate = s, !.endDate = e,
                                 !.isOngoing = o],
           [emptyFilters EXCEPT !.timelineRange = r], sampleConfig, z) :
        <<s, e, o, r, z>> \in Dates \X Dates \X BOOLEAN \X SliderRanges(Years)
                                \X TimeZones}

CombinedInputs ==
    {Input([sampleProject EXCEPT !.type = t, !.isOngoing = o,
                                 !.fundingYears = f],
           [search |-> s, types |-> ts, statuses |-> ss, priorities |-> ps,
            fundingYearRange |-> fr, timelineRange |-> tr],
           sampleConfig, 0) :
        <<t, o, f, s, ts, ss, ps, fr, tr>> \in
            {"Transportation", "Parks"} \X BOOLEAN
            \X {sampleProject.fundingYears, (FY27 :> MaxAmount)}
            \X {<<>>, <<"m", "a">>, <<"x">>}
            \X {<<>>, <<"Parks">>}
            \X {<<>>, <<"Design">>, <<"Planning">>}
            \X {<<>>, <<"Low">>, <<"Low", "High">>}
            \X {None, Some([min |-> MinYear + 1, max |-> MinYear + 1]),
                Some([min |-> MinYear + 3, max |-> FutureYear])}
            \X {None, Some([min |-> MinYear + 1, max |-> MinYear + 2]),
                Some([min |-> MinYear + 3, max |-> MaxYear])}}

\* every project above under the empty criteria, every configuration
EmptyInputs ==
    {Input(in.project, emptyFilters, cfg, z) :
        <<in, cfg, z>> \in (SearchInputs \cup CatInputs \cup FundingInputs
                              \cup TimelineInputs \cup CombinedInputs)
                            \X Configs \X TimeZones}

MatchInputs ==
    SearchInputs \cup CatInputs \cup FundingInputs \cup TimelineInputs
      \cup CombinedInputs \cup EmptyInputs

----------------------------------------------------------------------------
(* matchesFilters applied to one drawn input *)

InitIdleInfer == fiscalYear = None /\ type = "start" /\ inferred = <<>>

\* the module state of data.js and filters.js before init() runs
InitIdleApp ==
    /\ projects = <<>>
    /\ filteredProjects = <<>>
    /\ filters = emptyFilters
    /\ fundingYearBounds = None
    /\ timelineBounds = None
    /\ onFiltersChanged = FALSE
    /\ sliderInputs = None
    /\ rendered = None
    /\ pc = "start"

\* the module state of location-editor.js, and no row parsed
InitIdleParse ==
    /\ inputRow = None
    /\ parsed = <<>>
    /\ showOnlyNoLocation = FALSE
    /\ isLocationEditMode = FALSE
    /\ projectToAssign = None
    /\ modifiedLocations = <<>>
    /\ assignResult = None

\* the module state of user.js before the location dialog opens
InitIdleHex ==
    /\ pickerConfig = None
    /\ hexagons = <<>>
    /\ hexLookup = <<>>
    /\ storedLocation = <<>>

\* the module state of votes.js and comment-dialog.js before init() runs,
\* in a browser without cookies and a configuration without API server
InitIdleVotes ==
    /\ userVotes = <<>>
    /\ userComments = <<>>
    /\ cookieJar = <<>>
    /\ voteResult = None
    /\ loadOutcome = None
    /\ clock = 0

InitIdleRecover ==
    /\ apiConfig = [apiServer |-> FALSE, userId |-> FALSE,
                    debugMode |-> FALSE]
    /\ recoverRuns = <<>>
    /\ requests = <<>>
    /\ calls = 0

InitIdleDialog ==
    /\ commentProjectId = None
    /\ dialogHidden = TRUE
    /\ previousComments = None
    /\ commentFetches = <<>>

InitIdleSocial == InitIdleVotes /\ InitIdleRecover /\ InitIdleDialog

InitMatch ==
    /\ InitIdleSocial
    /\ \E in \in MatchInputs :
          /\ project = in.project
          /\ filterCriteria = in.filterCriteria
          /\ config = in.config
          /\ tz = in.tz
    /\ result = None
    /\ InitIdleInfer
    /\ InitIdleApp
    /\ csvRows = <<>>
    /\ InitIdleParse
    /\ InitIdleHex

Match ==
    /\ result = None
    /\ result' = Some(matchesFilters(project, filterCriteria, config, tz))
    /\ UNCHANGED <<project, filterCriteria, config, tz>>
    /\ UNCHANGED <<inferVars, appVars, parseVars, hexVars>>
    /\ UNCHANGED socialVars

NextMatch == Match

SpecMatch == InitMatch /\ [][NextMatch]_vars

----------------------------------------------------------------------------
(* Properties of matchesFilters *)

Called == result # None

\* criteria in which at most the named fields are set
OnlySet(c, fields) ==
    /\ ("search" \in fields \/ c.search = <<>>)
    /\ ("types" \in fields \/ c.types = <<>>)
    /\ ("statuses" \in fields \/ c.statuses = <<>>)
    /\ ("priorities" \in fields \/ c.priorities = <<>>)
    /\ ("fundingYearRange" \in fields \/ c.fundingYearRange = None)
    /\ ("timelineRange" \in fields \/ c.timelineRange = None)

\* C1: with empty criteria (search '', the three lists empty, both ranges
\* null) matchesFilters returns true for every project and configuration.
Thm_C1 ==
    (Called /\ filterCriteria = emptyFilters) => result[1] = TRUE

Wit_C1 ==
    /\ Called /\ filterCriteria = emptyFilters /\ result[1] = TRUE
    /\ project.totalFunding > 0 /\ project.type = "Parks"
    /\ project.isOngoing /\ config # sampleConfig /\ tz # 0

\* C2: for each of types, statuses and priorities, all other criteria empty:
\* a non-empty list passes exactly the projects whose value is one of the
\* listed values, and an empty list imposes no constraint.
Thm_C2 ==
    Called =>
      /\ OnlySet(filterCriteria, {"types"}) =>
           result[1] = (\/ filterCriteria.types = <<>>
                        \/ project.type \in Elems(filterCriteria.types))
      /\ OnlySet(filterCriteria, {"statuses"}) =>
           result[1] = (\/ filterCriteria.statuses = <<>>
                        \/ project.status \in Elems(filterCriteria.statuses))
      /\ OnlySet(filterCriteria, {"priorities"}) =>
           result[1] = (\/ filterCriteria.priorities = <<>>
                        \/ project.priority
                             \in Elems(filterCriteria.priorities))

Wit_C2 ==
    /\ Called /\ OnlySet(filterCriteria, {"statuses"})
    /\ Len(filterCriteria.statuses) = 2
    /\ filterCriteria.statuses[2] = project.status
    /\ result[1] = TRUE

\* C3: a project whose totalFunding is 0 passes every funding-year range,
\* whatever its per-year amounts: with the other criteria empty the result
\* is true.
Thm_C3 ==
    (/\ Called /\ OnlySet(filterCriteria, {"fundingYearRange"})
     /\ filterCriteria.fundingYearRange # None
     /\ project.totalFunding = 0) => result[1] = TRUE

Wit_C3 ==
    /\ Called /\ OnlySet(filterCriteria, {"fundingYearRange"})
    /\ filterCriteria.fundingYearRange
         = Some([min |-> MinYear + 3, max |-> MinYear + 3])
    /\ project.totalFunding = 0
    /\ FundingOf(project, FY25) > 0 /\ FundingOf(project, FY27) = 0
    /\ result[1] = TRUE

\* the digits a label ends with
NumericSuffix(l) ==
    LET k == CHOOSE k \in 0..Len(l) :
                 /\ \A j \in (Len(l) - k + 1)..Len(l) : l[j] \in Digits
                 /\ (k = Len(l) \/ l[Len(l) - k] \notin Digits)
    IN  SubSeq(l, Len(l) - k + 1, Len(l))

\* C4: totalFunding > 0 and a funding-year range, other criteria empty: the
\* result is true exactly when some label of config.fundingYears has
\* positive funding on the project and is either a fiscal-year label with
\* 2000 + numeric suffix in [min, max], or 'Future' with max >= 9999; a
\* label without numeric suffix never satisfies the range.
Thm_C4 ==
    (/\ Called /\ OnlySet(filterCriteria, {"fundingYearRange"})
     /\ filterCriteria.fundingYearRange # None
     /\ project.totalFunding > 0) =>
      LET r == filterCriteria.fundingYearRange[1]
      IN  result[1] =
            \E l \in Elems(config.fundingYears) :
               /\ l \in DOMAIN project.fundingYears
               /\ project.fundingYears[l] > 0
               /\ \/ /\ l # Future
                     /\ NumericSuffix(l) # <<>>
                     /\ 2000 + parseInt(NumericSuffix(l)) \in r.min..r.max
                  \/ l = Future /\ r.max >= 9999

Wit_C4 ==
    /\ Called /\ OnlySet(filterCriteria, {"fundingYearRange"})
    /\ filterCriteria.fundingYearRange
         = Some([min |-> MinYear + 3, max |-> FutureYear])
    /\ project.totalFunding > 0
    /\ FundingOf(project, Future) > 0 /\ FundingOf(project, Misc) > 0
    /\ FundingOf(project, FY25) = 0 /\ FundingOf(project, FY26) = 0
    /\ Misc \in Elems(config.fundingYears)
    /\ Future \notin Elems(config.fundingYears)
    /\ result[1] = FALSE

\* C5: when project.isOngoing is true the timeline range never excludes the
\* project: the result is the one obtained with timelineRange null.
Thm_C5 ==
    (Called /\ project.isOngoing) =>
      /\ result[1] = matchesFilters(project,
                        [filterCriteria EXCEPT !.timelineRange = None],
                        config, tz)
      /\ OnlySet(filterCriteria, {"timelineRange"}) => result[1] = TRUE

Wit_C5 ==
    /\ Called /\ project.isOngoing
    /\ OnlySet(filterCriteria, {"timelineRange"})
    /\ filterCriteria.timelineRange = Some([min |-> MaxYear, max |-> MaxYear])
    /\ project.startDate = Some(IsoDate(MinYear + 1, 3, 1))
    /\ project.endDate = Some(IsoDate(MinYear + 2, 12, 31))
    /\ result[1] = TRUE

\* the calendar year written in a date string YYYY-MM-DD
CalendarYear(date) == parseInt(SubSeq(date, 1, 4))

\* C6: a non-ongoing project and a timeline range, other criteria empty,
\* start/end the calendar years of startDate/endDate: with both dates the
\* project is rejected exactly when end < min or start > max; with only
\* startDate exactly when start > max; with only endDate exactly when
\* end < min; with neither date it passes.
Claim_C6 ==
    (/\ Called /\ OnlySet(filterCriteria, {"timelineRange"})
     /\ filterCriteria.timelineRange # None
     /\ ~project.isOngoing) =>
      LET r == filterCriteria.timelineRange[1]
          hasStart == project.startDate # None
          hasEnd == project.endDate # None
          start == CalendarYear(project.startDate[1])
          end == CalendarYear(project.endDate[1])
          rejected ==
              IF hasStart /\ hasEnd THEN end < r.min \/ start > r.max
              ELSE IF hasStart THEN start > r.max
              ELSE IF hasEnd THEN end < r.min
              ELSE FALSE
      IN  result[1] = ~rejected

\* a case-insensitive occurrence of sub in s
Occurs(sub, s) ==
    \E i \in 1..(Len(s) + 1) :
        \A k \in 1..Len(sub) :
            /\ i + k - 1 <= Len(s)
            /\ LowerChar(s[i + k - 1]) = LowerChar(sub[k])

\* C7: a non-empty search string, other criteria empty: the result is true
\* exactly when the lowercased search string is a substring of the
\* lowercased name, or of the lowercased description or locationName when
\* that field is not null; a null field is skipped.
Thm_C7 ==
    (/\ Called /\ OnlySet(filterCriteria, {"search"})
     /\ filterCriteria.search # <<>>) =>
      result[1] =
        \/ Occurs(filterCriteria.search, project.name)
        \/ /\ project.description # None
           /\ Occurs(filterCriteria.search, project.description[1])
        \/ /\ project.locationName # None
           /\ Occurs(filterCriteria.search, project.locationName[1])

Wit_C7 ==
    /\ Called /\ OnlySet(filterCriteria, {"search"})
    /\ filterCriteria.search = <<"O", "w">>
    /\ project.description = None
    /\ project.locationName = Some(<<"D", "o", "w", "n">>)
    /\ result[1] = TRUE

\* C8: the result is true exactly when every stage (search, types, statuses,
\* priorities, funding-year range, timeline range) passes on its own; a
\* project failing one stage is rejected even if it passes all the others
\* (an ongoing project with a non-matching type).
Thm_C8 ==
    Called =>
      /\ result[1] =
           \A stage \in {SearchStage(project, filterCriteria),
                         TypeStage(project, filterCriteria),
                         StatusStage(project, filterCriteria),
                         PriorityStage(project, filterCriteria),
                         FundingStage(project, filterCriteria, config),
                         TimelineStage(project, filterCriteria, tz)} : stage
      /\ (/\ project.isOngoing
          /\ filterCriteria.types # <<>>
          /\ project.type \notin Elems(filterCriteria.types))
           => result[1] = FALSE

Wit_C8 ==
    /\ Called /\ project.isOngoing
    /\ filterCriteria.types = <<"Parks">> /\ project.type = "Transportation"
    /\ filterCriteria.timelineRange # None
    /\ filterCriteria.search = <<"m", "a">>
    /\ filterCriteria.statuses = <<"Design">>
    /\ filterCriteria.priorities = <<"Low", "High">>
    /\ SearchStage(project, filterCriteria)
    /\ StatusStage(project, filterCriteria)
    /\ PriorityStage(project, filterCriteria)
    /\ FundingStage(project, filterCriteria, config)
    /\ TimelineStage(project, filterCriteria, tz)
    /\ result[1] = FALSE

----------------------------------------------------------------------------
(* inferDateFromFiscalYear applied to one drawn label *)

FiscalYearLabels ==
    {None, Some(<<>>), Some(Future), Some(toLowerCase(Future)), Some(Misc),
     Some(<<"F", "Y">>), Some(<<"F", "Y", "5">>), Some(<<"F", "Y", "2", "x">>),
     Some(<<"Y", "F", "2", "5">>), Some(<<"2", "5">>),
     Some(<<"F", " ", "Y", "2", "5">>),
     Some(<<"F", "Y", "2", "0", "2", "6">>),
     Some(<<"F", "Y", "2", "5", "/", "2", "6">>),
     Some(<<"F", "Y", "5", "F", "Y", "9", "9">>),
     Some(<<"C", "F", "Y", "0", "7">>)}
    \cup {Some(<<f, y, a, b>>) :
            <<f, y, a, b>> \in {"F", "f"} \X {"Y", "y"}
                                 \X {"0", "2", "4", "5", "9"}
                                 \X {"0", "6", "9"}}

InitIdleMatch ==
    /\ project = sampleProject
    /\ filterCriteria = emptyFilters
    /\ config = sampleConfig
    /\ tz = 0
    /\ result = None

InitInfer ==
    /\ InitIdleSocial
    /\ fiscalYear \in FiscalYearLabels
    /\ type \in {"start", "end"}
    /\ inferred = <<>>
    /\ InitIdleMatch
    /\ InitIdleApp
    /\ csvRows = <<>>
    /\ InitIdleParse
    /\ InitIdleHex

Infer ==
    /\ inferred = <<>>
    /\ inferred' = <<inferDateFromFiscalYear(fiscalYear, type)>>
    /\ UNCHANGED <<fiscalYear, type>>
    /\ UNCHANGED <<matchVars, appVars, parseVars, hexVars>>
    /\ UNCHANGED socialVars

NextInfer == Infer

SpecInfer == InitInfer /\ [][NextInfer]_vars

\* FY followed by two digits at position i of the label, in either case
FYAt(l, i) ==
    /\ i + 3 <= Len(l)
    /\ l[i] \in {"F", "f"} /\ l[i + 1] \in {"Y", "y"}
    /\ l[i + 2] \in Digits /\ l[i + 3] \in Digits

\* C10: inferDateFromFiscalYear(label, edge) returns null when label is
\* null or empty, is 'Future', or does not match FY followed by two digits
\* (case-insensitive); otherwise, with YY the two digits and Y = 2000+YY if
\* YY < 50 else 1900+YY, it returns (Y-1)-07-01 for edge 'start' and
\* Y-06-30 for edge 'end' (FY26: 2025-07-01 and 2026-06-30).
Thm_C10 ==
    inferred # <<>> =>
      /\ IF \/ fiscalYear = None
            \/ fiscalYear[1] = <<>>
            \/ fiscalYear[1] = Future
            \/ ~\E i \in 1..Len(fiscalYear[1]) : FYAt(fiscalYear[1], i)
         THEN inferred[1] = None
         ELSE LET l == fiscalYear[1]
                  i == CHOOSE i \in 1..Len(l) :
                          FYAt(l, i) /\ \A j \in 1..(i - 1) : ~FYAt(l, j)
                  YY == 10 * DigitVal(l[i + 2]) + DigitVal(l[i + 3])
                  Y == IF YY < 50 THEN 2000 + YY ELSE 1900 + YY
              IN  /\ type = "start" => inferred[1] = Some(IsoDate(Y - 1, 7, 1))
                  /\ type = "end" => inferred[1] = Some(IsoDate(Y, 6, 30))
      /\ (fiscalYear = Some(FY26) /\ type = "start")
           => inferred[1] = Some(<<"2", "0", "2", "5", "-", "0", "7", "-",
                                   "0", "1">>)
      /\ (fiscalYear = Some(FY26) /\ type = "end")
           => inferred[1] = Some(<<"2", "0", "2", "6", "-", "0", "6", "-",
                                   "3", "0">>)

Wit_C10 ==
    /\ fiscalYear = Some(<<"f", "Y", "5", "0">>) /\ type = "start"
    /\ inferred = <<Some(<<"1", "9", "4", "9", "-", "0", "7", "-", "0", "1">>)>>

----------------------------------------------------------------------------
(* The application: init() loads the projects and sets up the sliders,     *)
(* then the filter handlers run, each ending in applyFilters               *)

CurrentYear == 2026
MaxSliderSteps == 1

AppConfigs ==
    {sampleConfig, [sampleConfig EXCEPT !.fundingYears = <<FY25, Misc, FY26>>]}

AppTimeZones == {-5, 0}

blankRow ==
    [id |-> None, name |-> None, type |-> None, status |-> None,
     priority |-> None, description |-> None, location_name |-> None,
     lat |-> None, lng |-> None, funding |-> <<>>, total_cost |-> None,
     funding_source |-> None, department |-> None, start_date |-> None,
     construction_start |-> None, end_date |-> None, link |-> None]

rowMain ==
    [blankRow EXCEPT
        !.id = Some(<<"p", "1">>),
        !.name = Some(<<"M", "a", "i", "n">>),
        !.type = Some("Transportation"), !.status = Some("Design"),
        !.priority = Some("High"),
        !.description = Some(<<"W", "i", "d", "e">>),
        !.location_name = Some(<<"D", "o", "w", "n">>),
        !.lat = Some(<<"3", "5">>), !.lng = Some(<<"-", "7", "8">>),
        !.funding = (FundingKey(FY25) :> <<"5">>)
                      @@ (FundingKey(FY26) :> <<"$", "1", ",", "5">>)
                      @@ (FundingKey(FY27) :> <<"0">>)
                      @@ (FundingKey(Future) :> <<"0">>),
        !.funding_source = Some(<<"B", ",", " ", "G">>),
        !.start_date = Some(IsoDate(2025, 3, 1)),
        !.construction_start = Some(IsoDate(2025, 9, 1)),
        !.end_date = Some(IsoDate(2026, 12, 31))]

rowBay ==
    [blankRow EXCEPT
        !.name = Some(<<" ", "B", "a", "y", " ">>),
        !.funding = (FundingKey(FY26) :> <<"3">>)]

rowNoName == [rowMain EXCEPT !.name = Some(<<" ", " ">>)]

rowOngoing ==
    [blankRow EXCEPT
        !.name = Some(<<"P", "a", "r", "k">>),
        !.type = Some("Parks"), !.priority = Some("Low"),
        !.funding = (FundingKey(Future) :> <<"5">>),
        !.total_cost = Some(<<"9">>),
        !.start_date = Some(<<"*">>)]

rowNewYear ==
    [blankRow EXCEPT
        !.name = Some(<<"D", "a", "m">>),
        !.type = Some("Water"), !.status = Some("Design"),
        !.start_date = Some(IsoDate(2027, 1, 1))]

rowMissingName == [rowMain EXCEPT !.name = None]

rowEmptyName == [rowOngoing EXCEPT !.name = Some(<<>>)]

RowSeqs ==
    {<<>>, <<rowMain, rowBay>>, <<rowNoName, rowOngoing>>,
     <<rowNewYear, rowNoName, rowMain>>,
     <<rowMissingName, rowBay, rowEmptyName>>}

ChipValues ==
    [type |-> {"Transportation", "Parks"}, status |-> {"Design"},
     priority |-> {"Low"}]

SearchTexts == {<<>>, <<"M", "a">>}

\* Math.min / Math.max over a non-empty set of numbers
MinOf(S) == CHOOSE x \in S : \A y \in S : x <= y
MaxOf(S) == CHOOSE x \in S : \A y \in S : x >= y

InitApp ==
    /\ InitIdleSocial
    /\ config \in AppConfigs
    /\ tz \in AppTimeZones
    /\ project = sampleProject
    /\ filterCriteria = emptyFilters
    /\ result = None
    /\ InitIdleInfer
    /\ InitIdleApp
    /\ csvRows \in RowSeqs
    /\ InitIdleParse
    /\ InitIdleHex

\* the module state that the filter handlers and applyFilters work on
AppState ==
    [projects |-> projects, filteredProjects |-> filteredProjects,
     filters |-> filters, rendered |-> rendered]

Commit(st) ==
    /\ projects' = st.projects
    /\ filteredProjects' = st.filteredProjects
    /\ filters' = st.filters
    /\ rendered' = st.rendered

\* mutant: the filtered array is stored as the project collection as well
applyFiltersInPlace(st) ==
    LET filtered == SelectSeq(st.projects,
                       LAMBDA p : matchesFilters(p, st.filters, config, tz))
    IN  [st EXCEPT !.projects = filtered, !.filteredProjects = filtered,
                   !.rendered = IF onFiltersChanged THEN Some(filtered) ELSE @]

\* mutant: the callback runs before setFilteredProjects(filtered)
applyFiltersCallbackFirst(st) ==
    LET filtered == SelectSeq(st.projects,
                       LAMBDA p : matchesFilters(p, st.filters, config, tz))
    IN  [st EXCEPT !.filteredProjects = filtered,
                   !.rendered = IF onFiltersChanged
                                THEN Some(st.filteredProjects) ELSE @]

\* applyFilters on the module state st; the registered callback renders
\* the view it reads through getFilteredProjects()
applyFilters(st) ==
    LET filtered == SelectSeq(st.projects,
                       LAMBDA p : matchesFilters(p, st.filters, config, tz))
    IN  [st EXCEPT !.filteredProjects = filtered,
                   !.rendered = IF onFiltersChanged THEN Some(filtered) ELSE @]

\* loadProjects: the `complete` callback of the CSV parser
LoadProjects ==
    /\ pc = "start"
    /\ LET rows == csvRows
           results == [i \in 1..Len(rows) |-> parseProject(rows[i], config)]
           kept == SelectSeq(results, LAMBDA p : p # None)
           loaded == [i \in 1..Len(kept) |-> kept[i][1]]
       IN  /\ projects' = loaded
           /\ filteredProjects' = loaded
    /\ pc' = "loaded"
    /\ UNCHANGED <<filters, fundingYearBounds, timelineBounds,
                   onFiltersChanged, sliderInputs, rendered>>
    /\ UNCHANGED <<config, tz, project, filterCriteria, result, inferVars>>
    /\ UNCHANGED <<csvRows, parseVars, hexVars>>
    /\ UNCHANGED socialVars

\* the years of the numbered labels of config.fundingYears
FyNumbers(cfg) ==
    {parseInt(MatchDigits(cfg.fundingYears[i])[1]) + 2000 :
        i \in {i \in 1..Len(cfg.fundingYears) :
                 /\ cfg.fundingYears[i] # Future
                 /\ MatchDigits(cfg.fundingYears[i]) # None}}

\* the years of the start and end dates of all projects
AllYears(ps, offset) ==
    {getFullYear(ps[i].startDate[1], offset)[1] :
        i \in {i \in 1..Len(ps) : TruthyStr(ps[i].startDate)}}
    \cup {getFullYear(ps[i].endDate[1], offset)[1] :
        i \in {i \in 1..Len(ps) : TruthyStr(ps[i].endDate)}}

\* initRangeSliders, setOnFiltersChanged and the initial render of init()
InitRangeSliders ==
    /\ pc = "loaded"
    /\ LET fyNumbers == FyNumbers(config)
           hasFuture == InList(config.fundingYears, Future)
           fyBounds == [min |-> MinOf(fyNumbers),
                        max |-> IF hasFuture THEN 9999 ELSE MaxOf(fyNumbers)]
           allYears == AllYears(projects, tz)
           tlBounds == IF allYears # {}
                       THEN [min |-> MinOf(allYears), max |-> MaxOf(allYears)]
                       ELSE [min |-> CurrentYear, max |-> CurrentYear + 5]
       IN  /\ fundingYearBounds' = Some(fyBounds)
           /\ timelineBounds' = Some(tlBounds)
           /\ sliderInputs' = Some([fundingYearMin |-> fyBounds.min,
                                    fundingYearMax |-> fyBounds.max,
                                    timelineMin |-> tlBounds.min,
                                    timelineMax |-> tlBounds.max])
    /\ onFiltersChanged' = TRUE
    /\ rendered' = Some(filteredProjects)
    /\ pc' = "ready"
    /\ UNCHANGED <<projects, filteredProjects, filters>>
    /\ UNCHANGED <<config, tz, project, filterCriteria, result, inferVars>>
    /\ UNCHANGED <<csvRows, parseVars, hexVars>>
    /\ UNCHANGED socialVars

\* Array.prototype.indexOf / push / splice(index, 1) of toggleFilter
Toggled(list, value) ==
    IF ~InList(list, value) THEN Append(list, value)
    ELSE LET index == CHOOSE i \in 1..Len(list) :
                          list[i] = value /\ \A j \in 1..(i - 1) : list[j] # value
         IN  SubSeq(list, 1, index - 1) \o SubSeq(list, index + 1, Len(list))

toggleFilter(filterType, value) ==
    /\ pc = "ready"
    /\ LET f == CASE filterType = "type" ->
                       [filters EXCEPT !.types = Toggled(@, value)]
                  [] filterType = "status" ->
                       [filters EXCEPT !.statuses = Toggled(@, value)]
                  [] filterType = "priority" ->
                       [filters EXCEPT !.priorities = Toggled(@, value)]
       IN  Commit(applyFilters([AppState EXCEPT !.filters = f]))
    /\ UNCHANGED <<fundingYearBounds, timelineBounds, onFiltersChanged,
                   sliderInputs, pc>>
    /\ UNCHANGED <<config, tz, project, filterCriteria, result, inferVars>>
    /\ UNCHANGED <<csvRows, parseVars, hexVars>>
    /\ UNCHANGED socialVars

setSearchFilter(value) ==
    /\ pc = "ready"
    /\ Commit(applyFilters(
          [AppState EXCEPT !.filters.search = toLowerCase(value)]))
    /\ UNCHANGED <<fundingYearBounds, timelineBounds, onFiltersChanged,
                   sliderInputs, pc>>
    /\ UNCHANGED <<config, tz, project, filterCriteria, result, inferVars>>
    /\ UNCHANGED <<csvRows, parseVars, hexVars>>
    /\ UNCHANGED socialVars

\* the positions a slider thumb is moved to within its bounds
SliderValues(bounds) ==
    {v \in bounds.min..(bounds.min + MaxSliderSteps) : v <= bounds.max}
      \cup {bounds.max}

\* the 'input' listeners of initDualRangeSlider: thumb `which` of `slider`
\* is moved to a position v, clamped against the other thumb, then
\* onChange(min, max) stores the range and applies the filters
SliderInput(slider, which) ==
    /\ pc = "ready"
    /\ \E v \in SliderValues(IF slider = "fundingYear"
                             THEN fundingYearBounds[1]
                             ELSE timelineBounds[1]) :
          LET in == sliderInputs[1]
              lo == IF slider = "fundingYear" THEN in.fundingYearMin
                    ELSE in.timelineMin
              hi == IF slider = "fundingYear" THEN in.fundingYearMax
                    ELSE in.timelineMax
              minVal == IF which = "min" THEN (IF v > hi THEN hi ELSE v)
                        ELSE lo
              maxVal == IF which = "max" THEN (IF v < lo THEN lo ELSE v)
                        ELSE hi
              range == Some([min |-> minVal, max |-> maxVal])
          IN  /\ sliderInputs' =
                    IF slider = "fundingYear"
                    THEN Some([in EXCEPT !.fundingYearMin = minVal,
                                         !.fundingYearMax = maxVal])
                    ELSE Some([in EXCEPT !.timelineMin = minVal,
                                         !.timelineMax = maxVal])
              /\ Commit(applyFilters(
                    IF slider = "fundingYear"
                    THEN [AppState EXCEPT !.filters.fundingYearRange = range]
                    ELSE [AppState EXCEPT !.filters.timelineRange = range]))
    /\ UNCHANGED <<fundingYearBounds, timelineBounds, onFiltersChanged, pc>>
    /\ UNCHANGED <<config, tz, project, filterCriteria, result, inferVars>>
    /\ UNCHANGED <<csvRows, parseVars, hexVars>>
    /\ UNCHANGED socialVars

\* mutant: the sliders are reset on screen but the two ranges stay set
clearAllFiltersKeepRanges ==
    /\ pc = "ready"
    /\ sliderInputs' =
          Some([fundingYearMin |-> fundingYearBounds[1].min,
                fundingYearMax |-> fundingYearBounds[1].max,
                timelineMin |-> timelineBounds[1].min,
                timelineMax |-> timelineBounds[1].max])
    /\ Commit(applyFilters(
          [AppState EXCEPT !.filters =
              [emptyFilters EXCEPT
                  !.fundingYearRange = filters.fundingYearRange,
                  !.timelineRange = filters.timelineRange]]))
    /\ UNCHANGED <<fundingYearBounds, timelineBounds, onFiltersChanged, pc>>
    /\ UNCHANGED <<config, tz, project, filterCriteria, result, inferVars>>
    /\ UNCHANGED <<csvRows, parseVars, hexVars>>
    /\ UNCHANGED socialVars

clearAllFilters ==
    /\ pc = "ready"
    /\ sliderInputs' =
          Some([fundingYearMin |-> fundingYearBounds[1].min,
                fundingYearMax |-> fundingYearBounds[1].max,
                timelineMin |-> timelineBounds[1].min,
                timelineMax |-> timelineBounds[1].max])
    /\ Commit(applyFilters([AppState EXCEPT !.filters = emptyFilters]))
    /\ UNCHANGED <<fundingYearBounds, timelineBounds, onFiltersChanged, pc>>
    /\ UNCHANGED <<config, tz, project, filterCriteria, result, inferVars>>
    /\ UNCHANGED <<csvRows, parseVars, hexVars>>
    /\ UNCHANGED socialVars

Next ==
    \/ LoadProjects
    \/ InitRangeSliders
    \/ \E filterType \in DOMAIN ChipValues :
          \E value \in ChipValues[filterType] : toggleFilter(filterType, value)
    \/ \E value \in SearchTexts : setSearchFilter(value)
    \/ \E slider \in {"fundingYear", "timeline"}, which \in {"min", "max"} :
          SliderInput(slider, which)
    \/ clearAllFilters

Spec == InitApp /\ [][Next]_vars

----------------------------------------------------------------------------
(* Frame of applyFilters *)

\* the criteria a single filter handler can leave behind, starting from f
HandlerWrites(f) ==
    {emptyFilters}
    \cup {[f EXCEPT !.types = Toggled(@, v)] : v \in ChipValues.type}
    \cup {[f EXCEPT !.statuses = Toggled(@, v)] : v \in ChipValues.status}
    \cup {[f EXCEPT !.priorities = Toggled(@, v)] : v \in ChipValues.priority}
    \cup {[f EXCEPT !.search = toLowerCase(v)] : v \in SearchTexts}
    \cup {[f EXCEPT !.fundingYearRange = filters'.fundingYearRange]}
    \cup {[f EXCEPT !.timelineRange = filters'.timelineRange]}

\* C9: matchesFilters and applyFilters leave the projects, the criteria and
\* the configuration unchanged: applied to any reachable state, applyFilters
\* returns the same collection and the same criteria, and across every
\* handler step the collection and the configuration keep their value while
\* the criteria hold exactly what the handler itself wrote.
Thm_C9 ==
    /\ [](pc = "ready" =>
            /\ applyFilters(AppState).projects = projects
            /\ applyFilters(AppState).filters = filters)
    /\ [][pc = "ready" =>
            /\ projects' = projects
            /\ config' = config
            /\ filters' \in HandlerWrites(filters)]_vars

Wit_C9 ==
    /\ pc = "ready"
    /\ filters.types = <<"Transportation">>
    /\ filters.timelineRange # None
    /\ Len(projects) = 2
    /\ Len(filteredProjects) = 1
    /\ rendered = Some(filteredProjects)

----------------------------------------------------------------------------
(* parseProject applied to one drawn row, then the location editor working *)
(* on the parsed project                                                   *)

\* the funding_* columns of a row
FundingColumns ==
    {<<>>,
     (FundingKey(FY25) :> <<"5">>) @@ (FundingKey(FY26) :> <<"$", "1", ",", "5">>),
     (FundingKey(FY26) :> <<"3">>) @@ (FundingKey(FY27) :> <<"0">>),
     (FundingKey(Future) :> <<"5">>),
     (FundingKey(FY25) :> <<"2">>) @@ (FundingKey(Future) :> <<"4">>),
     (FundingKey(FY25) :> <<"0">>) @@ (FundingKey(FY27) :> <<"-", "5">>),
     (FundingKey(Misc) :> <<"2">>) @@ (FundingKey(FY26) :> <<"1">>),
     (FundingKey(FY26) :> <<"a", "b", "c">>) @@ (FundingKey(FY27) :> <<" ", "4">>)}

ParseConfigs ==
    {sampleConfig,
     [sampleConfig EXCEPT !.fundingYears = <<FY25, FY26>>],
     [sampleConfig EXCEPT !.fundingYears = <<FY25, Misc, FY26, Future>>],
     [sampleConfig EXCEPT !.fundingYears = <<Future, FY27, FY25>>],
     [sampleConfig EXCEPT !.priorityLevels = <<"High", "Low">>],
     [sampleConfig EXCEPT !.projectTypes = <<>>, !.statusOptions = <<>>,
                          !.priorityLevels = <<>>]}

DateCells(date) == {None, Some(<<>>), Some(<<"*">>), Some(date)}

\* rows that differ in the date columns and the funding columns
DateRows ==
    {[rowBay EXCEPT !.start_date = s, !.construction_start = c,
                    !.end_date = e, !.funding = f] :
        s \in DateCells(IsoDate(2025, 3, 1)),
        c \in {None, Some(<<"*">>), Some(IsoDate(2025, 9, 1))},
        e \in DateCells(IsoDate(2026, 12, 31)),
        f \in FundingColumns}

\* rows that differ in the name
NameRows ==
    {[rowMain EXCEPT !.name = n] :
        n \in {None, Some(<<>>), Some(<<" ", " ">>), Some(<<" ", "\t">>),
               Some(<<"X">>), Some(<<" ", "B", " ", "c", " ">>)}}

\* rows that differ in total_cost and the funding columns
CostRows ==
    {[rowBay EXCEPT !.total_cost = t, !.funding = f] :
        t \in {Some(<<>>), Some(<<"9">>), Some(<<"0">>), Some(<<"-", "3">>),
               Some(<<"a", "b", "c">>), Some(<<"$", "1", ",", "2">>)},
        f \in FundingColumns}

\* rows that differ in type, status and priority
CategoryRows ==
    {[rowBay EXCEPT !.type = t, !.status = st, !.priority = pr] :
        t \in {None, Some(""), Some("Parks")},
        st \in {None, Some(""), Some("Design")},
        pr \in {None, Some(""), Some("High")}}

\* rows that differ in lat and lng
LocationRows ==
    {[rowBay EXCEPT !.lat = la, !.lng = ln] :
        la \in {None, Some(<<>>), Some(<<"3", "5">>), Some(<<"0">>),
                Some(<<"a", "b", "c">>)},
        ln \in {None, Some(<<>>), Some(<<"-", "7", "8">>)}}

ParseRows == DateRows \cup NameRows \cup CostRows \cup CategoryRows
               \cup LocationRows

\* positions a map click can report
ClickPositions == {<<35, -78>>, <<0, 0>>}

InitParse ==
    /\ InitIdleSocial
    /\ inputRow \in ParseRows
    /\ config \in ParseConfigs
    /\ parsed = <<>>
    /\ showOnlyNoLocation = FALSE
    /\ isLocationEditMode = FALSE
    /\ projectToAssign = None
    /\ modifiedLocations = <<>>
    /\ assignResult = None
    /\ project = sampleProject
    /\ filterCriteria = emptyFilters
    /\ tz = 0
    /\ result = None
    /\ InitIdleInfer
    /\ InitIdleApp
    /\ csvRows = <<>>
    /\ InitIdleHex

Parse ==
    /\ parsed = <<>>
    /\ parsed' = <<parseProject(inputRow, config)>>
    /\ UNCHANGED <<inputRow, editorVars>>
    /\ UNCHANGED <<matchVars, inferVars, appVars, hexVars>>
    /\ UNCHANGED socialVars

\* a project object exists once parseProject has returned one
HasProject == parsed # <<>> /\ parsed[1] # None

\* the change handler of the "no location" checkbox
toggleNoLocationFilter ==
    /\ HasProject
    /\ showOnlyNoLocation' = ~showOnlyNoLocation
    /\ UNCHANGED <<inputRow, parsed, isLocationEditMode, projectToAssign,
                   modifiedLocations, assignResult>>
    /\ UNCHANGED <<matchVars, inferVars, appVars, hexVars>>
    /\ UNCHANGED socialVars

\* shift+click on the card of the project: the click handler takes the
\* branch that calls enterLocationAssignMode(project)
enterLocationAssignMode ==
    /\ HasProject
    /\ showOnlyNoLocation /\ ~parsed[1][1].hasLocation
    /\ projectToAssign' = Some(parsed[1][1].id)
    /\ isLocationEditMode' = TRUE
    /\ UNCHANGED <<inputRow, parsed, showOnlyNoLocation, modifiedLocations,
                   assignResult>>
    /\ UNCHANGED <<matchVars, inferVars, appVars, hexVars>>
    /\ UNCHANGED socialVars

\* Escape key or the cancel button
exitLocationAssignMode ==
    /\ HasProject
    /\ projectToAssign' = None
    /\ isLocationEditMode' = FALSE
    /\ UNCHANGED <<inputRow, parsed, showOnlyNoLocation, modifiedLocations,
                   assignResult>>
    /\ UNCHANGED <<matchVars, inferVars, appVars, hexVars>>
    /\ UNCHANGED socialVars

\* mutant: the location is stored but exitLocationAssignMode() is not
\* called
assignLocationStayInMode(lat, lng) ==
    /\ HasProject
    /\ IF projectToAssign = None
       THEN /\ assignResult' = Some(FALSE)
            /\ UNCHANGED <<parsed, modifiedLocations, projectToAssign,
                           isLocationEditMode>>
       ELSE /\ parsed' = <<Some([parsed[1][1] EXCEPT
                                    !.lat = Some(Some(lat)),
                                    !.lng = Some(Some(lng)),
                                    !.hasLocation = TRUE])>>
            /\ modifiedLocations' =
                  (projectToAssign[1] :> [lat |-> lat, lng |-> lng])
                    @@ modifiedLocations
            /\ UNCHANGED <<projectToAssign, isLocationEditMode>>
            /\ assignResult' = Some(TRUE)
    /\ UNCHANGED <<inputRow, showOnlyNoLocation>>
    /\ UNCHANGED <<matchVars, inferVars, appVars, hexVars>>
    /\ UNCHANGED socialVars

\* assignLocation(lat, lng): called by the map click handler while in edit
\* mode, and callable as an export in any state
assignLocation(lat, lng) ==
    /\ HasProject
    /\ IF projectToAssign = None
       THEN /\ assignResult' = Some(FALSE)
            /\ UNCHANGED <<parsed, modifiedLocations, projectToAssign,
                           isLocationEditMode>>
       ELSE /\ parsed' = <<Some([parsed[1][1] EXCEPT
                                    !.lat = Some(Some(lat)),
                                    !.lng = Some(Some(lng)),
                                    !.hasLocation = TRUE])>>
            /\ modifiedLocations' =
                  (projectToAssign[1] :> [lat |-> lat, lng |-> lng])
                    @@ modifiedLocations
            /\ projectToAssign' = None
            /\ isLocationEditMode' = FALSE
            /\ assignResult' = Some(TRUE)
    /\ UNCHANGED <<inputRow, showOnlyNoLocation>>
    /\ UNCHANGED <<matchVars, inferVars, appVars, hexVars>>
    /\ UNCHANGED socialVars

NextParse ==
    \/ Parse
    \/ toggleNoLocationFilter
    \/ enterLocationAssignMode
    \/ exitLocationAssignMode
    \/ \E pos \in ClickPositions : assignLocation(pos[1], pos[2])

SpecParse == InitParse /\ [][NextParse]_vars

\* the project parseProject returned
P == parsed[1][1]

----------------------------------------------------------------------------
(* Dates of a parsed project *)

\* the date a cell of the row gives explicitly, None when it gives none
Explicit(cell) ==
    IF TruthyStr(cell) /\ cell # Some(<<"*">>) THEN cell ELSE None

\* the amount the row gives for a label of the configuration
Amount(r, label) == parseCurrency(FundingColumn(r, FundingKey(label)))

\* positions in cfg.fundingYears of the numbered labels with positive funding
FundedAt(r, cfg) ==
    {i \in 1..Len(cfg.fundingYears) :
        cfg.fundingYears[i] # Future /\ Amount(r, cfg.fundingYears[i]) > 0}

FirstFunded(r, cfg) ==
    IF FundedAt(r, cfg) = {} THEN None
    ELSE Some(cfg.fundingYears[MinOf(FundedAt(r, cfg))])

LastFunded(r, cfg) ==
    IF FundedAt(r, cfg) = {}
    THEN IF Amount(r, Future) > 0 THEN Some(Future) ELSE None
    ELSE Some(cfg.fundingYears[MaxOf(FundedAt(r, cfg))])

FundedLabels(r, cfg) == {cfg.fundingYears[i] : i \in FundedAt(r, cfg)}

----------------------------------------------------------------------------
(* Funding of a parsed project *)

\* the sum of the values of a funding map
RECURSIVE SumOf(_)
SumOf(f) ==
    IF DOMAIN f = {} THEN 0
    ELSE LET k == CHOOSE k \in DOMAIN f : TRUE
         IN  f[k] + SumOf([l \in DOMAIN f \ {k} |-> f[l]])

\* C13: for every project produced by parseProject, if the row's total_cost
\* parses to a positive number then totalFunding equals that number and
\* hasExplicitTotalCost is true; otherwise totalFunding equals the sum of
\* all fundingYears values (including 'Future') and hasExplicitTotalCost is
\* false.
Thm_C13 ==
    HasProject =>
      /\ IF parseCurrency(inputRow.total_cost) > 0
         THEN /\ P.totalFunding = parseCurrency(inputRow.total_cost)
              /\ P.hasExplicitTotalCost
         ELSE /\ P.totalFunding = SumOf(P.fundingYears)
              /\ ~P.hasExplicitTotalCost
      /\ inputRow.total_cost = Some(<<"$", "1", ",", "2">>)
           => P.totalFunding = 12 /\ P.hasExplicitTotalCost
      /\ inputRow.total_cost \in {None, Some(<<>>), Some(<<"0">>),
                                  Some(<<"-", "3">>), Some(<<"a", "b", "c">>)}
           => ~P.hasExplicitTotalCost

\* a negative total_cost falls back to the sum, negative amounts included
Wit_C13 ==
    /\ HasProject
    /\ inputRow.total_cost = Some(<<"-", "3">>)
    /\ FY27 \in DOMAIN P.fundingYears
    /\ P.fundingYears[FY27] = -5
    /\ P.totalFunding = -5
    /\ ~P.hasExplicitTotalCost

----------------------------------------------------------------------------
(* Inferred dates of a parsed project *)

\* the row gives no value in a date cell
NoDate(cell) == cell \in {None, Some(<<>>)}

\* positions in cfg.fundingYears of all labels with positive funding,
\* 'Future' included
AnyFundedAt(r, cfg) ==
    {i \in 1..Len(cfg.fundingYears) : Amount(r, cfg.fundingYears[i]) > 0}

\* C14 as stated: when the row gives no start_date/end_date, startDate is
\* the inferred start of the first label of config.fundingYears with
\* positive funding and endDate the inferred end of the last such label;
\* explicit dates are kept unchanged; when only 'Future' has positive
\* funding both are null.
Claim_C14 ==
    HasProject =>
      LET at == AnyFundedAt(inputRow, config)
          first == IF at = {} THEN None
                   ELSE Some(config.fundingYears[MinOf(at)])
          last == IF at = {} THEN None
                  ELSE Some(config.fundingYears[MaxOf(at)])
      IN  /\ NoDate(inputRow.start_date)
                => P.startDate = inferDateFromFiscalYear(first, "start")
          /\ NoDate(inputRow.end_date)
                => P.endDate = inferDateFromFiscalYear(last, "end")
          /\ Explicit(inputRow.start_date) # None
                => P.startDate = inputRow.start_date
          /\ Explicit(inputRow.end_date) # None
                => P.endDate = inputRow.end_date

\* C14 amended: when the row gives no start_date/end_date, startDate is the
\* inferred start of the first label other than 'Future' (in
\* config.fundingYears order) with positive funding and endDate the inferred
\* end of the last such label, whether or not 'Future' is funded as well;
\* explicit dates are kept unchanged; when no label other than 'Future' has
\* positive funding both startDate and endDate are null.
Thm_C14 ==
    HasProject =>
      LET at == FundedAt(inputRow, config)
      IN  /\ (NoDate(inputRow.start_date) /\ at # {}) =>
                P.startDate =
                  inferDateFromFiscalYear(
                      Some(config.fundingYears[MinOf(at)]), "start")
          /\ (NoDate(inputRow.end_date) /\ at # {}) =>
                P.endDate =
                  inferDateFromFiscalYear(
                      Some(config.fundingYears[MaxOf(at)]), "end")
          /\ (NoDate(inputRow.start_date) /\ at = {}) => P.startDate = None
          /\ (NoDate(inputRow.end_date) /\ at = {}) => P.endDate = None
          /\ Explicit(inputRow.start_date) # None
                => P.startDate = inputRow.start_date
          /\ Explicit(inputRow.end_date) # None
                => P.endDate = inputRow.end_date
          /\ (/\ NoDate(inputRow.start_date) /\ NoDate(inputRow.end_date)
              /\ FundedLabels(inputRow, config) = {FY26})
                => /\ P.startDate = Some(<<"2", "0", "2", "5", "-", "0", "7",
                                           "-", "0", "1">>)
                   /\ P.endDate = Some(<<"2", "0", "2", "6", "-", "0", "6",
                                         "-", "3", "0">>)

\* FY25 and 'Future' funded: the end date is the end of FY25
Wit_C14 ==
    /\ HasProject
    /\ config = sampleConfig
    /\ NoDate(inputRow.start_date) /\ NoDate(inputRow.end_date)
    /\ Amount(inputRow, Future) > 0
    /\ FundedLabels(inputRow, config) = {FY25}
    /\ P.startDate = Some(IsoDate(2024, 7, 1))
    /\ P.endDate = Some(IsoDate(2025, 6, 30))

----------------------------------------------------------------------------
(* Rows without a name *)

\* the name cell is missing, empty or only white space
BlankName(cell) ==
    cell = None \/ \A i \in 1..Len(cell[1]) : cell[1][i] \in Whitespace

\* C15: parseProject returns null for a row whose name is missing, empty or
\* only whitespace, and loadProjects leaves every such row out of the
\* project collection, so no project in the collection (or in the filtered
\* view) has an empty name; loading does not fail because of such a row.
Thm_C15 ==
    /\ pc = "start" =>
          \A i \in 1..Len(csvRows) :
             BlankName(csvRows[i].name) <=>
               parseProject(csvRows[i], config) = None
    /\ pc # "start" =>
          LET named == SelectSeq(csvRows, LAMBDA r : ~BlankName(r.name))
          IN  /\ Len(projects) = Len(named)
              /\ \A i \in 1..Len(named) :
                    \E pre, post \in {<<>>, <<" ">>} :
                       named[i].name[1] = pre \o projects[i].name \o post
              /\ \A i \in 1..Len(projects) : ~BlankName(Some(projects[i].name))
              /\ \A i \in 1..Len(filteredProjects) :
                    ~BlankName(Some(filteredProjects[i].name))

\* three rows of which two have no name: one project is loaded
Wit_C15 ==
    /\ pc = "ready"
    /\ Len(csvRows) = 3
    /\ csvRows[1].name = None
    /\ csvRows[3].name = Some(<<>>)
    /\ Len(projects) = 1
    /\ projects[1].name = <<"B", "a", "y">>
    /\ filteredProjects = projects

----------------------------------------------------------------------------
(* Keys and values of fundingYears *)

\* C16: for every project produced by parseProject, the set of keys of
\* fundingYears is exactly the set of labels in config.fundingYears (it
\* contains 'Future' only when 'Future' is configured), and every value is
\* a non-negative number.
Claim_C16 ==
    HasProject =>
      /\ DOMAIN P.fundingYears =
           {config.fundingYears[i] : i \in 1..Len(config.fundingYears)}
      /\ \A l \in DOMAIN P.fundingYears : P.fundingYears[l] >= 0

----------------------------------------------------------------------------
(* Defaults of type, status and priority *)

\* the row gives no value in a category cell
Omitted(cell) == cell \in {None, Some("")}

\* C18 as stated: when a row omits type, status or priority, parseProject
\* assigns the first value enumerated in the configuration for that
\* category: the first key of projectTypes, the first entry of
\* statusOptions and the first entry of priorityLevels.
Claim_C18 ==
    HasProject =>
      /\ (Omitted(inputRow.type) /\ config.projectTypes # <<>>)
            => P.type = config.projectTypes[1]
      /\ (Omitted(inputRow.status) /\ config.statusOptions # <<>>)
            => P.status = config.statusOptions[1]
      /\ (Omitted(inputRow.priority) /\ config.priorityLevels # <<>>)
            => P.priority = config.priorityLevels[1]

\* C18 amended: when a row omits type or status, parseProject assigns the
\* first key of projectTypes ('Other' when there is none) and the first
\* entry of statusOptions ('Planning' when there is none); when it omits
\* priority, parseProject assigns the third entry of priorityLevels
\* ('Medium' when there are fewer than three); a value the row gives is
\* kept.
Thm_C18 ==
    HasProject =>
      /\ P.type =
           IF ~Omitted(inputRow.type) THEN inputRow.type[1]
           ELSE IF config.projectTypes # <<>> THEN config.projectTypes[1]
           ELSE "Other"
      /\ P.status =
           IF ~Omitted(inputRow.status) THEN inputRow.status[1]
           ELSE IF config.statusOptions # <<>> THEN config.statusOptions[1]
           ELSE "Planning"
      /\ P.priority =
           IF ~Omitted(inputRow.priority) THEN inputRow.priority[1]
           ELSE IF Len(config.priorityLevels) >= 3
                THEN config.priorityLevels[3]
           ELSE "Medium"

\* priorityLevels High, Medium, Low: a row without priority gets Low
Wit_C18 ==
    /\ HasProject
    /\ config.priorityLevels = <<"High", "Medium", "Low">>
    /\ inputRow.priority = Some("")
    /\ inputRow.type = None
    /\ P.priority = "Low"
    /\ P.type = "Transportation"
    /\ P.status = "Design"

----------------------------------------------------------------------------
(* Location of a project *)

\* C17: for every project, after parseProject and after any sequence of
\* location-editor operations, lat and lng are either both null or both
\* non-null, and hasLocation is true exactly when both are non-null.
Claim_C17 ==
    HasProject =>
      /\ P.lat = None <=> P.lng = None
      /\ P.hasLocation <=> (P.lat # None /\ P.lng # None)

----------------------------------------------------------------------------
(* The hexagonal grid of the location picker.  Latitudes and hexSize are   *)
(* whole numbers of thousandths of a degree, hexSize even, so that         *)
(* hexSize * 1.5 is exact.  The horizontal spacing                         *)
(* hexSize * sqrt(3) / cos(centerLat) is irrational: a longitude is kept   *)
(* as its base, the spacing it is measured in and the number of half       *)
(* spacings added to the base.                                             *)

MaxGrid == 3

\* String(n) for an integer n
IntToString(n) ==
    IF n < 0 THEN <<"-">> \o NumberToString(0 - n) ELSE NumberToString(n)

\* parseInt(str): str is None when the array element is undefined; leading
\* white space, an optional sign and the leading digits; None is NaN
parseIntSigned(str) ==
    IF str = None THEN None
    ELSE LET t == trim(str[1])
             signed == t # <<>> /\ t[1] \in {"-", "+"}
             ds == TakeWhile(IF signed THEN Tail(t) ELSE t, Digits)
         IN  IF ds = <<>> THEN None
             ELSE IF signed /\ t[1] = "-" THEN Some(0 - parseInt(ds))
             ELSE Some(parseInt(ds))

\* s.split('_')
RECURSIVE splitUnderscore(_)
splitUnderscore(s) ==
    IF \A i \in 1..Len(s) : s[i] # "_"
    THEN <<s>>
    ELSE LET k == CHOOSE k \in 1..Len(s) :
                      s[k] = "_" /\ \A j \in 1..(k - 1) : s[j] # "_"
         IN  <<SubSeq(s, 1, k - 1)>>
               \o splitUnderscore(SubSeq(s, k + 1, Len(s)))

\* hexSize * Math.sqrt(3) * lngCorrection, kept symbolic
horizSpacing(hexSize, centerLat) ==
    [hexSize |-> hexSize, centerLat |-> centerLat]

\* centerLng + halves * (spacing / 2)
Lng(centerLng, spacing, halves) ==
    [base |-> centerLng, spacing |-> spacing, halves |-> halves]

\* Math.abs
Abs(n) == IF n < 0 THEN 0 - n ELSE n

\* `hex_${row}_${col}`
HexId(row, col) ==
    <<"h", "e", "x", "_">> \o IntToString(row) \o <<"_">> \o IntToString(col)

\* the hexagon the loop body builds for (row, col)
HexData(centerLat, centerLng, hexSize, row, col) ==
    LET vertSpacing == (hexSize * 3) \div 2
        spacing == horizSpacing(hexSize, centerLat)
        xOffset == IF Abs(row) % 2 = 1 THEN 1 ELSE 0
    IN  [id |-> HexId(row, col),
         center |-> [lat |-> centerLat + row * vertSpacing,
                     lng |-> Lng(centerLng, spacing, 2 * col + xOffset)]]

\* the array the two nested loops leave in `hexagons`
generateHexGrid(centerLat, centerLng, hexSize, cols, rows) ==
    LET firstRow == 0 - (rows \div 2)
        firstCol == 0 - (cols \div 2)
        perRow == (cols \div 2) - firstCol + 1
        count == ((rows \div 2) - firstRow + 1) * perRow
    IN  [k \in 1..count |->
            HexData(centerLat, centerLng, hexSize,
                    firstRow + ((k - 1) \div perRow),
                    firstCol + ((k - 1) % perRow))]

\* array[i] of a JavaScript array, None when undefined (i counts from 0)
At(array, i) == IF i + 1 <= Len(array) THEN Some(array[i + 1]) ELSE None

\* mutant: the offset test is row % 2 === 1, false for negative rows
hexIdToCenterSignedRemainder(hexId, cfg) ==
    LET parts == splitUnderscore(hexId)
        row == parseIntSigned(At(parts, 1))
        col == parseIntSigned(At(parts, 2))
        center == cfg.userLocationPicker.center
        hexSize == cfg.userLocationPicker.hexSize
        vertSpacing == (hexSize * 3) \div 2
        spacing == horizSpacing(hexSize, center.lat)
    IN  [lat |-> IF row = None THEN None
                 ELSE Some(center.lat + row[1] * vertSpacing),
         lng |-> IF row = None \/ col = None THEN None
                 ELSE Some(Lng(center.lng, spacing,
                               2 * col[1]
                                 + (IF row[1] > 0 /\ row[1] % 2 = 1
                                    THEN 1 ELSE 0)))]

\* hexIdToCenter of the format documentation; a coordinate is None when
\* it is NaN
hexIdToCenter(hexId, cfg) ==
    LET parts == splitUnderscore(hexId)
        row == parseIntSigned(At(parts, 1))
        col == parseIntSigned(At(parts, 2))
        center == cfg.userLocationPicker.center
        hexSize == cfg.userLocationPicker.hexSize
        vertSpacing == (hexSize * 3) \div 2
        spacing == horizSpacing(hexSize, center.lat)
    IN  [lat |-> IF row = None THEN None
                 ELSE Some(center.lat + row[1] * vertSpacing),
         lng |-> IF row = None \/ col = None THEN None
                 ELSE Some(Lng(center.lng, spacing,
                               2 * col[1]
                                 + (IF Abs(row[1]) % 2 = 1 THEN 1 ELSE 0)))]

\* userLocationPicker objects of the configuration
PickerConfigs ==
    {[center |-> [lat |-> la, lng |-> ln], hexSize |-> sz,
      gridCols |-> c, gridRows |-> r] :
        la \in {35732, 0}, ln \in {-78850}, sz \in {8, 2},
        c \in 1..MaxGrid, r \in 1..MaxGrid}
    \cup {[center |-> [lat |-> 35732, lng |-> -78850], hexSize |-> 8,
           gridCols |-> 7, gridRows |-> 5],
          [center |-> [lat |-> 35732, lng |-> -78850], hexSize |-> 8,
           gridCols |-> 11, gridRows |-> 9]}

InitHex ==
    /\ InitIdleSocial
    /\ pickerConfig \in PickerConfigs
    /\ hexagons = <<>>
    /\ hexLookup = <<>>
    /\ storedLocation = <<>>
    /\ InitIdleMatch
    /\ InitIdleInfer
    /\ InitIdleApp
    /\ csvRows = <<>>
    /\ InitIdleParse

\* the location dialog opens
initDialogMap ==
    /\ hexagons = <<>>
    /\ hexagons' = generateHexGrid(pickerConfig.center.lat,
                                   pickerConfig.center.lng,
                                   pickerConfig.hexSize,
                                   pickerConfig.gridCols,
                                   pickerConfig.gridRows)
    /\ UNCHANGED <<pickerConfig, hexLookup, storedLocation>>
    /\ UNCHANGED <<matchVars, inferVars, appVars, parseVars>>
    /\ UNCHANGED socialVars

\* the location dialog closes
destroyDialogMap ==
    /\ hexagons # <<>>
    /\ hexagons' = <<>>
    /\ UNCHANGED <<pickerConfig, hexLookup, storedLocation>>
    /\ UNCHANGED <<matchVars, inferVars, appVars, parseVars>>
    /\ UNCHANGED socialVars

\* the ID of a hexagon of the grid is converted back to a position
Convert ==
    /\ hexagons # <<>>
    /\ \E k \in 1..Len(hexagons) :
          hexLookup' =
            <<hexagons[k],
              hexIdToCenter(hexagons[k].id,
                            [userLocationPicker |-> pickerConfig])>>
    /\ UNCHANGED <<pickerConfig, hexagons, storedLocation>>
    /\ UNCHANGED <<matchVars, inferVars, appVars, parseVars>>
    /\ UNCHANGED socialVars

\* hex_location values a stored response can carry: IDs the picker wrote
\* and strings of other shapes
StoredIds ==
    {HexId(-2, 3), HexId(0, 0),
     <<"a", "b", "c">>,
     <<>>,
     <<"h", "e", "x", "_", "1">>,
     <<"h", "e", "x", "_", "a", "_", "b">>,
     <<"h", "e", "x", "_", "2", "x", "_", "3">>,
     <<"h", "e", "x", "_", "1", "_", "2", "_", "3">>,
     <<"c", "e", "l", "l", "_", "1", "_", "2">>,
     <<"h", "e", "x", "_", "1", ".", "5", "_", "2">>}

\* the hex_location of a stored response is converted to a position
ConvertStored ==
    /\ \E hexId \in StoredIds :
          storedLocation' =
            <<hexId,
              hexIdToCenter(hexId, [userLocationPicker |-> pickerConfig])>>
    /\ UNCHANGED <<pickerConfig, hexagons, hexLookup>>
    /\ UNCHANGED <<matchVars, inferVars, appVars, parseVars>>
    /\ UNCHANGED socialVars

NextHex == initDialogMap \/ destroyDialogMap \/ Convert \/ ConvertStored

SpecHex == InitHex /\ [][NextHex]_vars

----------------------------------------------------------------------------
(* Size of the grid and the hex ID round trip *)

\* the row and column indices the loops of generateHexGrid run through
RowIndices == (0 - (pickerConfig.gridRows \div 2))..(pickerConfig.gridRows \div 2)
ColIndices == (0 - (pickerConfig.gridCols \div 2))..(pickerConfig.gridCols \div 2)

\* C19: generateHexGrid(centerLat, centerLng, hexSize, cols, rows) produces
\* a grid of exactly cols columns and rows rows, that is exactly cols*rows
\* hexagons with pairwise distinct IDs of the form hex_{row}_{col}, for
\* every cols >= 1 and rows >= 1 (7 columns by 5 rows gives 35 hexagons
\* with 35 unique IDs).
Claim_C19 ==
    hexagons # <<>> =>
      /\ Len(hexagons) = pickerConfig.gridCols * pickerConfig.gridRows
      /\ Cardinality({hexagons[k].center.lat : k \in 1..Len(hexagons)})
           = pickerConfig.gridRows
      /\ Cardinality({hexagons[k].center.lng.halves \div 2 :
                         k \in 1..Len(hexagons)})
           = pickerConfig.gridCols
      /\ \A j, k \in 1..Len(hexagons) :
            hexagons[j].id = hexagons[k].id => j = k
      /\ \A k \in 1..Len(hexagons) :
            \E r \in RowIndices, c \in ColIndices :
               hexagons[k].id = HexId(r, c)

\* C20: hex ID round trip: for every hexagon H produced by generateHexGrid
\* for a grid configuration, hexIdToCenter(H.id, same configuration)
\* recovers the same (row, col), including negative indices, and returns
\* H.center, using the same spacing and the same half-column offset for
\* rows with odd absolute index as the generator.
Thm_C20 ==
    hexLookup # <<>> =>
      LET H == hexLookup[1]
          found == hexLookup[2]
          parts == splitUnderscore(H.id)
      IN  /\ found.lat = Some(H.center.lat)
          /\ found.lng = Some(H.center.lng)
          /\ \E r \in RowIndices, c \in ColIndices :
                /\ H.id = HexId(r, c)
                /\ parseIntSigned(At(parts, 1)) = Some(r)
                /\ parseIntSigned(At(parts, 2)) = Some(c)
                /\ found.lat[1] = pickerConfig.center.lat
                                    + r * ((3 * pickerConfig.hexSize) \div 2)
                /\ found.lng[1].base = pickerConfig.center.lng
                /\ found.lng[1].spacing =
                     horizSpacing(pickerConfig.hexSize,
                                  pickerConfig.center.lat)
                /\ found.lng[1].halves =
                     2 * c + (IF r \in {-5, -3, -1, 1, 3, 5} THEN 1 ELSE 0)

\* the hexagon one row and one column before the centre
Wit_C20 ==
    /\ hexLookup # <<>>
    /\ hexLookup[1].id = <<"h", "e", "x", "_", "-", "1", "_", "-", "1">>
    /\ pickerConfig.hexSize = 8
    /\ hexLookup[2].lat = Some(pickerConfig.center.lat - 12)
    /\ hexLookup[2].lng[1].halves = -1
    /\ hexLookup[2].lng = Some(hexLookup[1].center.lng)

\* the hex IDs of the format hex_{row}_{col}
WellFormedIds == {HexId(r, c) : r \in -9..9, c \in -9..9}

\* C21: hexIdToCenter given a malformed hex ID (not of the form
\* hex_{row}_{col}, or with a non-numeric row or column) fails with an
\* error and never returns a coordinate pair; it performs no silent
\* coercion of the ID.  The function has no throw statement, so the
\* weakest reading is checked: no number comes back for a malformed ID.
Claim_C21 ==
    (storedLocation # <<>> /\ storedLocation[1] \notin WellFormedIds) =>
      /\ storedLocation[2].lat = None
      /\ storedLocation[2].lng = None

----------------------------------------------------------------------------
(* Shape of the criteria and the filtered view after a handler *)

\* an array: indexed 1..length
IsArray(a) == DOMAIN a = 1..Len(a)

\* null or {min, max} with two numbers
IsRange(r) ==
    \/ r = None
    \/ /\ Len(r) = 1
       /\ DOMAIN r[1] = {"min", "max"}
       /\ r[1].min \in Int
       /\ r[1].max \in Int

\* C22: after any sequence of toggleFilter, setSearchFilter, range-slider
\* changes and clearAllFilters, the filter criteria object has exactly the
\* keys search, types, statuses, priorities, fundingYearRange and
\* timelineRange (search a string, the three lists arrays, each range null
\* or {min, max}); after clearAllFilters it equals the initial empty
\* criteria.
Thm_C22 ==
    /\ [](/\ DOMAIN filters = {"search", "types", "statuses", "priorities",
                               "fundingYearRange", "timelineRange"}
          /\ IsArray(filters.search)
          /\ \A i \in 1..Len(filters.search) : Len(filters.search[i]) = 1
          /\ IsArray(filters.types)
          /\ IsArray(filters.statuses)
          /\ IsArray(filters.priorities)
          /\ IsRange(filters.fundingYearRange)
          /\ IsRange(filters.timelineRange))
    /\ [][clearAllFilters =>
            filters' = [search |-> <<>>, types |-> <<>>, statuses |-> <<>>,
                        priorities |-> <<>>, fundingYearRange |-> <<>>,
                        timelineRange |-> <<>>]]_vars

\* every kind of criterion has been set by its handler
Wit_C22 ==
    /\ pc = "ready"
    /\ filters.search = <<"m", "a">>
    /\ Len(filters.types) = 2
    /\ filters.statuses = <<"Design">>
    /\ filters.fundingYearRange # None
    /\ filters.timelineRange # None

\* the view a handler step must leave: the projects of the collection that
\* match the criteria the step leaves, in the order of the collection
ExpectedView ==
    SelectSeq(projects',
              LAMBDA p : matchesFilters(p, filters', config', tz'))

\* C26: after each filter-changing operation (toggleFilter,
\* setSearchFilter, a range-slider change, clearAllFilters) completes, the
\* filtered view is exactly the projects of the full collection, in
\* collection order, for which matchesFilters(project, current criteria,
\* config) is true, and the onFiltersChanged callback is invoked only after
\* the filtered view has been updated: what it renders is the new view.
Thm_C26 ==
    [][pc = "ready" =>
         /\ filteredProjects' = ExpectedView
         /\ rendered' = Some(ExpectedView)]_vars

\* a criterion has removed one of two projects from the view and the list
\* the callback rendered is that view
Wit_C26 ==
    /\ pc = "ready"
    /\ Len(projects) = 2
    /\ filters.search = <<"m", "a">>
    /\ Len(filteredProjects) = 1
    /\ filteredProjects[1] = projects[1]
    /\ rendered = Some(filteredProjects)

----------------------------------------------------------------------------
(* Location edit mode *)

\* C28: in every state reachable through enterLocationAssignMode,
\* exitLocationAssignMode and assignLocation, location edit mode is on
\* exactly when a project to assign is set; assignLocation with no project
\* to assign returns false and changes no project and no modification
\* record, and a successful assignLocation records the project as modified
\* and leaves edit mode.
Thm_C28 ==
    /\ [](isLocationEditMode <=> projectToAssign # None)
    /\ [][(\E pos \in ClickPositions : assignLocation(pos[1], pos[2])) =>
            IF projectToAssign = None
            THEN /\ assignResult' = Some(FALSE)
                 /\ parsed' = parsed
                 /\ modifiedLocations' = modifiedLocations
            ELSE /\ assignResult' = Some(TRUE)
                 /\ projectToAssign[1] \in DOMAIN modifiedLocations'
                 /\ parsed'[1][1].hasLocation
                 /\ ~isLocationEditMode'
                 /\ projectToAssign' = None]_vars

\* a location was assigned and a further call without a project to assign
\* was refused
Wit_C28 ==
    /\ HasProject
    /\ assignResult = Some(FALSE)
    /\ ~isLocationEditMode
    /\ P.id \in DOMAIN modifiedLocations
    /\ P.hasLocation

----------------------------------------------------------------------------
(* The year of a fiscal-year label in the filters and in the inferred dates *)

\* the label drawn is FYnn, two digits after FY in either case
TwoDigitLabel ==
    /\ fiscalYear # None
    /\ Len(fiscalYear[1]) = 4
    /\ FYAt(fiscalYear[1], 1)

\* nn of the label FYnn
ShortYearOf(l) == 10 * DigitVal(l[3]) + DigitVal(l[4])

\* a project funded in the one label l whose dates are both inferred from l
InferredProject(l) ==
    [sampleProject EXCEPT
        !.fundingYears = (l :> 1),
        !.totalFunding = 1,
        !.startDate = inferDateFromFiscalYear(Some(l), "start"),
        !.endDate = inferDateFromFiscalYear(Some(l), "end")]

\* both ranges set to the single year y
YearCriteria(y) ==
    [emptyFilters EXCEPT
        !.fundingYearRange = Some([min |-> y, max |-> y]),
        !.timelineRange = Some([min |-> y, max |-> y])]

\* the project of label l passes the filters set to the year the filters
\* give l, under the configuration whose only label is l
InSameYear(l, offset) ==
    LET cfg == [sampleConfig EXCEPT !.fundingYears = <<l>>]
    IN  matchesFilters(InferredProject(l),
                       YearCriteria(MinOf(FyNumbers(cfg))), cfg, offset)

----------------------------------------------------------------------------
(* The comment dialog: showCommentDialog suspends in its await while the   *)
(* GET /api/comment request is in flight; the user goes on using the page  *)

MaxFetches == 2

\* the projects whose card has a comment button
DialogProjects == {"A", "B"}

\* what GET /api/comment returns for each item
ServerComments ==
    [i \in DialogProjects |->
        IF i = "A" THEN <<"first on A", "second on A">> ELSE <<"only on B">>]

\* whether config.apiServer is set, the user has a userId and the page is
\* in debug mode
ApiConfigs ==
    [apiServer : BOOLEAN, userId : BOOLEAN, debugMode : BOOLEAN]

\* innerHTML of #previousComments while the request is in flight
LoadingComments == Some([loading |-> TRUE, item |-> "", comments |-> <<>>])

\* renderComments(comments) for the response to the request about item
Rendered(item, comments) ==
    Some([loading |-> FALSE, item |-> item, comments |-> comments])

InitDialog ==
    /\ apiConfig \in ApiConfigs
    /\ recoverRuns = <<>>
    /\ requests = <<>>
    /\ calls = 0
    /\ InitIdleVotes
    /\ InitIdleDialog
    /\ InitIdleMatch
    /\ InitIdleInfer
    /\ InitIdleApp
    /\ csvRows = <<>>
    /\ InitIdleParse
    /\ InitIdleHex

\* click on the comment button of a card: showCommentDialog(project) up to
\* its await; without API server fetchCommentsFromApi returns [] at once
\* and the continuation runs before any other event
showCommentDialog(id) ==
    /\ dialogHidden
    /\ commentProjectId' = Some(id)
    /\ dialogHidden' = FALSE
    /\ IF ~apiConfig.debugMode
       THEN UNCHANGED <<previousComments, commentFetches>>
       ELSE IF ~apiConfig.apiServer
       THEN /\ previousComments' = Rendered(id, <<>>)
            /\ UNCHANGED commentFetches
       ELSE /\ Len(commentFetches) < MaxFetches
            /\ previousComments' = LoadingComments
            /\ commentFetches' = Append(commentFetches, id)
    /\ UNCHANGED <<coreVars, voteVars, recoverVars>>

\* the cancel button, the overlay or Escape
hideCommentDialog ==
    /\ ~dialogHidden
    /\ dialogHidden' = TRUE
    /\ commentProjectId' = None
    /\ UNCHANGED <<previousComments, commentFetches>>
    /\ UNCHANGED <<coreVars, voteVars, recoverVars>>

\* the response to the k-th request in flight arrives, ok or not, and
\* showCommentDialog resumes after its await: renderComments(comments)
FetchResolved(k, ok) ==
    /\ k \in 1..Len(commentFetches)
    /\ LET item == commentFetches[k]
       IN  previousComments' =
             Rendered(item, IF ok THEN ServerComments[item] ELSE <<>>)
    /\ commentFetches' = SubSeq(commentFetches, 1, k - 1)
                           \o SubSeq(commentFetches, k + 1,
                                     Len(commentFetches))
    /\ UNCHANGED <<commentProjectId, dialogHidden>>
    /\ UNCHANGED <<coreVars, voteVars, recoverVars>>

NextDialog ==
    \/ \E id \in DialogProjects : showCommentDialog(id)
    \/ hideCommentDialog
    \/ \E k \in 1..MaxFetches, ok \in BOOLEAN : FetchResolved(k, ok)

SpecDialog == InitDialog /\ [][NextDialog]_vars

\* C30: the comments rendered in the comment dialog always belong to the
\* project the dialog currently shows: when the dialog is opened for
\* project A and, before A's comment fetch resolves, is closed or reopened
\* for project B, the late response for A is never rendered into a dialog
\* that is hidden or shows B.
Claim_C30 ==
    /\ []((~dialogHidden /\ previousComments # None)
            => \/ previousComments[1].loading
               \/ previousComments[1].item = commentProjectId[1])
    /\ [][previousComments' # previousComments
            => /\ ~dialogHidden'
               /\ \/ previousComments'[1].loading
                  \/ previousComments'[1].item = commentProjectId'[1]]_vars

----------------------------------------------------------------------------
(* votes.js and cookies.js.  A plain object is the sequence of its         *)
(* <<key, value>> entries in insertion order; a vote is Some(string) or    *)
(* None for null; a comment is a record of two strings                     *)

HasKey(obj, key) == \E i \in 1..Len(obj) : obj[i][1] = key

\* obj[key] of a key the object has
ValueOf(obj, key) == obj[CHOOSE i \in 1..Len(obj) : obj[i][1] = key][2]

\* obj[key] = value
Put(obj, key, value) ==
    IF HasKey(obj, key)
    THEN [i \in 1..Len(obj) |->
             IF obj[i][1] = key THEN <<key, value>> ELSE obj[i]]
    ELSE Append(obj, <<key, value>>)

\* delete obj[key]
Delete(obj, key) == SelectSeq(obj, LAMBDA e : e[1] # key)

Up == <<"u", "p">>
Down == <<"d", "o", "w", "n">>

\* the quoted form JSON.stringify gives a string without control characters
RECURSIVE Quote(_, _)
Quote(str, i) ==
    IF i > Len(str) THEN <<"\"">>
    ELSE (IF str[i] \in {"\"", "\\"} THEN <<"\\", str[i]>> ELSE <<str[i]>>)
           \o Quote(str, i + 1)

JsonString(str) == <<"\"">> \o Quote(str, 1)

\* pieces.join(',')
RECURSIVE Joined(_, _)
Joined(pieces, i) ==
    IF i > Len(pieces) THEN <<>>
    ELSE (IF i > 1 THEN <<",">> ELSE <<>>) \o pieces[i]
           \o Joined(pieces, i + 1)

\* JSON.stringify(userVotes)
StringifyVotes(votes) ==
    <<"{">>
      \o Joined([i \in 1..Len(votes) |->
                   JsonString(votes[i][1]) \o <<":">>
                     \o (IF votes[i][2] = None THEN <<"n", "u", "l", "l">>
                         ELSE JsonString(votes[i][2][1]))], 1)
      \o <<"}">>

TextKey == <<"t", "e", "x", "t">>
TimestampKey == <<"t", "i", "m", "e", "s", "t", "a", "m", "p">>

\* JSON.stringify of the comments of one project
StringifyList(list) ==
    <<"[">>
      \o Joined([j \in 1..Len(list) |->
                   <<"{">> \o JsonString(TextKey) \o <<":">>
                     \o JsonString(list[j].text) \o <<",">>
                     \o JsonString(TimestampKey) \o <<":">>
                     \o JsonString(list[j].timestamp) \o <<"}">>], 1)
      \o <<"]">>

\* JSON.stringify(userComments)
StringifyComments(comments) ==
    <<"{">>
      \o Joined([i \in 1..Len(comments) |->
                   JsonString(comments[i][1]) \o <<":">>
                     \o StringifyList(comments[i][2])], 1)
      \o <<"}">>

PunctToken(c) == [k |-> "punct", v |-> <<c>>]
BadToken == [k |-> "bad", v |-> <<>>]

\* index of the quote that closes the string whose content starts at i,
\* 0 when there is none
RECURSIVE StringEnd(_, _)
StringEnd(text, i) ==
    IF i > Len(text) THEN 0
    ELSE IF text[i] = "\\" THEN StringEnd(text, i + 2)
    ELSE IF text[i] = "\"" THEN i
    ELSE StringEnd(text, i + 1)

\* the string whose escaped content is body (escapes \" and \\ only)
RECURSIVE Unquote(_, _)
Unquote(body, i) ==
    IF i > Len(body) THEN <<>>
    ELSE IF body[i] = "\\" /\ i < Len(body)
    THEN <<body[i + 1]>> \o Unquote(body, i + 2)
    ELSE <<body[i]>> \o Unquote(body, i + 1)

\* the tokens JSON.parse reads from position i on; a BadToken ends the
\* sequence where the text is no JSON
RECURSIVE Tokenize(_, _)
Tokenize(text, i) ==
    IF i > Len(text) THEN <<>>
    ELSE IF text[i] \in {"{", "}", "[", "]", ":", ","}
    THEN <<PunctToken(text[i])>> \o Tokenize(text, i + 1)
    ELSE IF text[i] \in Whitespace THEN Tokenize(text, i + 1)
    ELSE IF text[i] = "\""
    THEN LET end == StringEnd(text, i + 1)
         IN  IF end = 0 THEN <<BadToken>>
             ELSE <<[k |-> "string",
                     v |-> Unquote(SubSeq(text, i + 1, end - 1), 1)]>>
                    \o Tokenize(text, end + 1)
    ELSE IF i + 3 <= Len(text)
            /\ SubSeq(text, i, i + 3) = <<"n", "u", "l", "l">>
    THEN <<[k |-> "null", v |-> <<>>]>> \o Tokenize(text, i + 4)
    ELSE <<BadToken>>

TokenAt(t, i) == IF i \in 1..Len(t) THEN t[i] ELSE BadToken

\* the object of the members 1..m of the token sequence of a votes object
RECURSIVE VotesFrom(_, _)
VotesFrom(t, m) ==
    IF m = 0 THEN <<>>
    ELSE Put(VotesFrom(t, m - 1), t[4 * m - 2].v,
             IF t[4 * m].k = "null" THEN None ELSE Some(t[4 * m].v))

\* JSON.parse(text) for the texts a votes cookie holds: an object of
\* strings and nulls, anything else a SyntaxError
ParseVotes(text) ==
    LET t == Tokenize(text, 1)
        n == Len(t)
        members == (n - 1) \div 4
        ok == /\ n >= 2
              /\ t[1] = PunctToken("{")
              /\ t[n] = PunctToken("}")
              /\ n = 2 \/ n = 4 * members + 1
              /\ \A m \in 1..members :
                    /\ t[4 * m - 2].k = "string"
                    /\ t[4 * m - 1] = PunctToken(":")
                    /\ t[4 * m].k \in {"string", "null"}
                    /\ m < members => t[4 * m + 1] = PunctToken(",")
    IN  IF ok THEN [ok |-> TRUE, value |-> VotesFrom(t, members)]
        ELSE [ok |-> FALSE, value |-> <<>>]

\* the comment objects of an array from token i on, after those in acc
RECURSIVE CommentsFrom(_, _, _)
CommentsFrom(t, i, acc) ==
    IF /\ TokenAt(t, i) = PunctToken("{")
       /\ TokenAt(t, i + 1) = [k |-> "string", v |-> TextKey]
       /\ TokenAt(t, i + 2) = PunctToken(":")
       /\ TokenAt(t, i + 3).k = "string"
       /\ TokenAt(t, i + 4) = PunctToken(",")
       /\ TokenAt(t, i + 5) = [k |-> "string", v |-> TimestampKey]
       /\ TokenAt(t, i + 6) = PunctToken(":")
       /\ TokenAt(t, i + 7).k = "string"
       /\ TokenAt(t, i + 8) = PunctToken("}")
    THEN LET list == Append(acc, [text |-> t[i + 3].v,
                                  timestamp |-> t[i + 7].v])
         IN  IF TokenAt(t, i + 9) = PunctToken(",")
             THEN CommentsFrom(t, i + 10, list)
             ELSE IF TokenAt(t, i + 9) = PunctToken("]")
             THEN [ok |-> TRUE, list |-> list, next |-> i + 10]
             ELSE [ok |-> FALSE, list |-> <<>>, next |-> 0]
    ELSE IF acc = <<>> /\ TokenAt(t, i) = PunctToken("]")
    THEN [ok |-> TRUE, list |-> <<>>, next |-> i + 1]
    ELSE [ok |-> FALSE, list |-> <<>>, next |-> 0]

\* the members of a comments object from token i on, after those in obj
RECURSIVE CommentMembersFrom(_, _, _)
CommentMembersFrom(t, i, obj) ==
    IF /\ TokenAt(t, i).k = "string"
       /\ TokenAt(t, i + 1) = PunctToken(":")
       /\ TokenAt(t, i + 2) = PunctToken("[")
    THEN LET array == CommentsFrom(t, i + 3, <<>>)
         IN  IF ~array.ok THEN [ok |-> FALSE, value |-> <<>>]
             ELSE IF TokenAt(t, array.next) = PunctToken(",")
             THEN CommentMembersFrom(t, array.next + 1,
                                     Put(obj, t[i].v, array.list))
             ELSE IF TokenAt(t, array.next) = PunctToken("}")
                     /\ array.next = Len(t)
             THEN [ok |-> TRUE, value |-> Put(obj, t[i].v, array.list)]
             ELSE [ok |-> FALSE, value |-> <<>>]
    ELSE [ok |-> FALSE, value |-> <<>>]

\* JSON.parse(text) for the texts a comments cookie holds: an object of
\* arrays of {text, timestamp}, anything else a SyntaxError
ParseComments(text) ==
    LET t == Tokenize(text, 1)
    IN  IF t = <<PunctToken("{"), PunctToken("}")>>
        THEN [ok |-> TRUE, value |-> <<>>]
        ELSE IF TokenAt(t, 1) = PunctToken("{")
        THEN CommentMembersFrom(t, 2, <<>>)
        ELSE [ok |-> FALSE, value |-> <<>>]

\* the characters encodeURIComponent escapes, with their two hex digits
Escapes ==
    (" " :> <<"2", "0">>) @@ ("\"" :> <<"2", "2">>) @@ ("%" :> <<"2", "5">>)
    @@ ("," :> <<"2", "C">>) @@ (":" :> <<"3", "A">>)
    @@ (";" :> <<"3", "B">>) @@ ("=" :> <<"3", "D">>)
    @@ ("[" :> <<"5", "B">>) @@ ("\\" :> <<"5", "C">>)
    @@ ("]" :> <<"5", "D">>) @@ ("{" :> <<"7", "B">>)
    @@ ("}" :> <<"7", "D">>)

\* pieces[lo] \o ... \o pieces[hi], by halves
RECURSIVE Flatten(_, _, _)
Flatten(pieces, lo, hi) ==
    IF lo > hi THEN <<>>
    ELSE IF lo = hi THEN pieces[lo]
    ELSE Flatten(pieces, lo, (lo + hi) \div 2)
           \o Flatten(pieces, (lo + hi) \div 2 + 1, hi)

encodeURIComponent(str) ==
    Flatten([i \in 1..Len(str) |->
                IF str[i] \in DOMAIN Escapes THEN <<"%">> \o Escapes[str[i]]
                ELSE <<str[i]>>], 1, Len(str))

\* the character a %XX sequence stands for
Unescaped(hex) == CHOOSE c \in DOMAIN Escapes : Escapes[c] = hex

\* the text of a string in which every % starts a %XX sequence: the hex
\* digits after a % are consumed with it
Decoded(str) ==
    Flatten([i \in 1..Len(str) |->
                IF str[i] = "%" THEN <<Unescaped(SubSeq(str, i + 1, i + 2))>>
                ELSE IF (i > 1 /\ str[i - 1] = "%")
                          \/ (i > 2 /\ str[i - 2] = "%") THEN <<>>
                ELSE <<str[i]>>], 1, Len(str))

\* decodeURIComponent(str): a % that is not followed by two hex digits is a
\* URIError; the escapes met are those of Escapes
decodeURIComponent(str) ==
    IF \A i \in 1..Len(str) :
          str[i] = "%" =>
            /\ i + 2 <= Len(str)
            /\ \E c \in DOMAIN Escapes : Escapes[c] = SubSeq(str, i + 1, i + 2)
    THEN [threw |-> FALSE, value |-> Decoded(str)]
    ELSE [threw |-> TRUE, value |-> <<>>]

\* the getter of document.cookie: 'name=value' of every cookie, joined
\* with '; '
RECURSIVE documentCookie(_, _)
documentCookie(jar, i) ==
    IF i > Len(jar) THEN <<>>
    ELSE (IF i > 1 THEN <<";", " ">> ELSE <<>>)
           \o jar[i].name \o <<"=">> \o jar[i].value
           \o documentCookie(jar, i + 1)

\* str.split(';')
RECURSIVE splitSemicolon(_)
splitSemicolon(str) ==
    IF \A i \in 1..Len(str) : str[i] # ";"
    THEN <<str>>
    ELSE LET k == CHOOSE k \in 1..Len(str) :
                      str[k] = ";" /\ \A j \in 1..(k - 1) : str[j] # ";"
         IN  <<SubSeq(str, 1, k - 1)>>
               \o splitSemicolon(SubSeq(str, k + 1, Len(str)))

\* while (c.charAt(0) === ' ') c = c.substring(1, c.length)
RECURSIVE StripLeadingSpaces(_)
StripLeadingSpaces(c) ==
    IF c # <<>> /\ c[1] = " " THEN StripLeadingSpaces(Tail(c)) ELSE c

\* getCookie(name) on the cookies of jar: threw when decodeURIComponent
\* throws, else the value, None for null
getCookie(name, jar) ==
    LET nameEQ == name \o <<"=">>
        ca == splitSemicolon(documentCookie(jar, 1))
        c == [i \in 1..Len(ca) |-> StripLeadingSpaces(ca[i])]
        hits == {i \in 1..Len(c) :
                   /\ Len(c[i]) >= Len(nameEQ)
                   /\ SubSeq(c[i], 1, Len(nameEQ)) = nameEQ}
    IN  IF hits = {} THEN [threw |-> FALSE, value |-> None]
        ELSE LET i == CHOOSE i \in hits : \A j \in hits : i <= j
                 decoded == decodeURIComponent(
                               SubSeq(c[i], Len(nameEQ) + 1, Len(c[i])))
             IN  IF decoded.threw THEN [threw |-> TRUE, value |-> None]
                 ELSE [threw |-> FALSE, value |-> Some(decoded.value)]

\* setCookie(name, value, days): the cookie of that name now holds the
\* encoded value
setCookie(jar, name, value) ==
    LET cookie == [name |-> name, value |-> encodeURIComponent(value)]
    IN  IF \E i \in 1..Len(jar) : jar[i].name = name
        THEN [i \in 1..Len(jar) |->
                 IF jar[i].name = name THEN cookie ELSE jar[i]]
        ELSE Append(jar, cookie)

VOTES_COOKIE_NAME ==
    <<"c", "i", "p", "m", "a", "p", "_", "v", "o", "t", "e", "s">>
COMMENTS_COOKIE_NAME ==
    <<"c", "i", "p", "m", "a", "p", "_", "c", "o", "m", "m", "e", "n", "t",
      "s">>

MaxComments == 2

\* userVotes[projectId] || null
getVote(votes, projectId) ==
    IF /\ HasKey(votes, projectId)
       /\ ValueOf(votes, projectId) # None
       /\ ValueOf(votes, projectId)[1] # <<>>
    THEN ValueOf(votes, projectId)
    ELSE None

\* userComments[projectId] || []
getComments(comments, projectId) ==
    IF HasKey(comments, projectId) THEN ValueOf(comments, projectId)
    ELSE <<>>

\* !!(userComments[projectId] && userComments[projectId].length > 0)
hasComments(comments, projectId) ==
    HasKey(comments, projectId) /\ Len(ValueOf(comments, projectId)) > 0

\* new Date().toISOString() n seconds after the page was opened
IsoTime(n) ==
    IsoDate(2026, 11, 4) \o <<"T", "0", "0", ":", "0", "0", ":", "0">>
      \o NumberToString(n) \o <<".", "0", "0", "0", "Z">>

\* what loadVotesAndComments leaves for the cookies of jar: getCookie is
\* called outside the try blocks, JSON.parse inside them
Loaded(jar) ==
    LET votesCookie == getCookie(VOTES_COOKIE_NAME, jar)
        commentsCookie == getCookie(COMMENTS_COOKIE_NAME, jar)
        votes == IF TruthyStr(votesCookie.value)
                    /\ ParseVotes(votesCookie.value[1]).ok
                 THEN ParseVotes(votesCookie.value[1]).value
                 ELSE <<>>
        comments == IF TruthyStr(commentsCookie.value)
                       /\ ParseComments(commentsCookie.value[1]).ok
                    THEN ParseComments(commentsCookie.value[1]).value
                    ELSE <<>>
    IN  IF votesCookie.threw
        THEN [userVotes |-> <<>>, userComments |-> <<>>,
              outcome |-> Some("URIError")]
        ELSE IF commentsCookie.threw
        THEN [userVotes |-> votes, userComments |-> <<>>,
              outcome |-> Some("URIError")]
        ELSE [userVotes |-> votes, userComments |-> comments,
              outcome |-> Some("ok")]

\* init() or a test calls loadVotesAndComments()
loadVotesAndComments ==
    /\ userVotes' = Loaded(cookieJar).userVotes
    /\ userComments' = Loaded(cookieJar).userComments
    /\ loadOutcome' = Loaded(cookieJar).outcome
    /\ UNCHANGED <<cookieJar, voteResult, clock>>
    /\ UNCHANGED <<coreVars, recoverVars, dialogVars>>

\* postVoteToApi(projectId, vote): the vote of the POST that leaves when
\* the API server and the user are known, None when none leaves; its
\* response changes nothing
postVoteToApi(projectId, vote) ==
    IF apiConfig.apiServer /\ apiConfig.userId THEN Some(vote) ELSE None

\* an upvote that never toggles off
upvoteNeverClears(projectId) ==
    /\ loadOutcome = Some("ok")
    /\ LET votes == Put(userVotes, projectId, Some(Up))
       IN  /\ userVotes' = votes
           /\ cookieJar' = setCookie(cookieJar, VOTES_COOKIE_NAME,
                                     StringifyVotes(votes))
           /\ voteResult' = <<projectId, getVote(votes, projectId),
                              postVoteToApi(projectId, 1)>>
    /\ UNCHANGED <<userComments, loadOutcome, clock>>
    /\ UNCHANGED recoverVars
    /\ UNCHANGED <<coreVars, dialogVars>>

\* upvote(projectId)
upvote(projectId) ==
    /\ loadOutcome = Some("ok")
    /\ LET off == HasKey(userVotes, projectId)
                    /\ ValueOf(userVotes, projectId) = Some(Up)
           votes == IF off THEN Delete(userVotes, projectId)
                    ELSE Put(userVotes, projectId, Some(Up))
       IN  /\ userVotes' = votes
           /\ cookieJar' = setCookie(cookieJar, VOTES_COOKIE_NAME,
                                     StringifyVotes(votes))
           /\ voteResult' = <<projectId, getVote(votes, projectId),
                              postVoteToApi(projectId, IF off THEN 0 ELSE 1)>>
    /\ UNCHANGED <<userComments, loadOutcome, clock>>
    /\ UNCHANGED recoverVars
    /\ UNCHANGED <<coreVars, dialogVars>>

\* downvote(projectId)
downvote(projectId) ==
    /\ loadOutcome = Some("ok")
    /\ LET off == HasKey(userVotes, projectId)
                    /\ ValueOf(userVotes, projectId) = Some(Down)
           votes == IF off THEN Delete(userVotes, projectId)
                    ELSE Put(userVotes, projectId, Some(Down))
       IN  /\ userVotes' = votes
           /\ cookieJar' = setCookie(cookieJar, VOTES_COOKIE_NAME,
                                     StringifyVotes(votes))
           /\ voteResult' = <<projectId, getVote(votes, projectId),
                              postVoteToApi(projectId, IF off THEN 0 ELSE -1)>>
    /\ UNCHANGED <<userComments, loadOutcome, clock>>
    /\ UNCHANGED recoverVars
    /\ UNCHANGED <<coreVars, dialogVars>>

\* an addComment that puts the new comment first
addCommentAtFront(projectId, comment) ==
    /\ loadOutcome = Some("ok")
    /\ IF ~TruthyStr(comment) \/ trim(comment[1]) = <<>>
       THEN UNCHANGED <<userComments, cookieJar, clock>>
       ELSE /\ clock < MaxComments
            /\ LET list == <<[text |-> trim(comment[1]),
                              timestamp |-> IsoTime(clock)]>>
                             \o getComments(userComments, projectId)
                   comments == Put(userComments, projectId, list)
               IN  /\ userComments' = comments
                   /\ cookieJar' = setCookie(cookieJar, COMMENTS_COOKIE_NAME,
                                             StringifyComments(comments))
            /\ clock' = clock + 1
    /\ UNCHANGED <<userVotes, voteResult, loadOutcome>>
    /\ UNCHANGED <<coreVars, recoverVars, dialogVars>>

\* addComment(projectId, comment): comment is None for null
addComment(projectId, comment) ==
    /\ loadOutcome = Some("ok")
    /\ IF ~TruthyStr(comment) \/ trim(comment[1]) = <<>>
       THEN UNCHANGED <<userComments, cookieJar, clock>>
       ELSE /\ clock < MaxComments
            /\ LET list == Append(getComments(userComments, projectId),
                                  [text |-> trim(comment[1]),
                                   timestamp |-> IsoTime(clock)])
                   comments == Put(userComments, projectId, list)
               IN  /\ userComments' = comments
                   /\ cookieJar' = setCookie(cookieJar, COMMENTS_COOKIE_NAME,
                                             StringifyComments(comments))
            /\ clock' = clock + 1
    /\ UNCHANGED <<userVotes, voteResult, loadOutcome>>
    /\ UNCHANGED <<coreVars, recoverVars, dialogVars>>

\* the ids of the projects on the page
ProjectIds == {<<"p", "1">>, <<"p", "2">>}

\* the texts the comment dialog or a caller passes to addComment
CommentInputs ==
    {None, Some(<<>>), Some(<<" ", "\t">>), Some(<<" ", "o", "k", " ">>),
     Some(<<"\"", ";", "%", "=", "\\">>)}

RECOVERED_COOKIE_NAME == VOTES_COOKIE_NAME \o <<"_", "r", "e", "c", "o", "v", "e", "r", "e", "d">>

True == <<"t", "r", "u", "e">>

\* a cookie as the browser holds it: the value is the raw text
Cookie(name, raw) == [name |-> name, value |-> raw]

\* the cookies an earlier visit, an older version or another hand left
InitialJars ==
    {<<>>,
     setCookie(
        setCookie(
           setCookie(<<>>, RECOVERED_COOKIE_NAME, True),
           COMMENTS_COOKIE_NAME,
           StringifyComments(
              <<<<(<<"p", "2">>), <<[text |-> <<"o", "l", "d">>,
                                    timestamp |-> IsoTime(0)]>>>>>>)),
        VOTES_COOKIE_NAME,
        StringifyVotes(<<<<(<<"p", "1">>), Some(Up)>>>>)),
     <<Cookie(COMMENTS_COOKIE_NAME, <<"%", "5", "B", "x">>),
       Cookie(VOTES_COOKIE_NAME,
              encodeURIComponent(StringifyVotes(<<<<(<<"p", "2">>), None>>>>)))>>,
     <<Cookie(VOTES_COOKIE_NAME, <<"n", "o", "t", "%", "2", "0", "j", "s",
                                   "o", "n">>),
       Cookie(COMMENTS_COOKIE_NAME, <<>>)>>,
     <<Cookie(VOTES_COOKIE_NAME, <<"%">>)>>,
     <<Cookie(COMMENTS_COOKIE_NAME, <<"1", "0", "0", "%", "z", "z">>)>>}

InitVotes ==
    /\ cookieJar \in InitialJars
    /\ apiConfig \in {c \in ApiConfigs : ~c.debugMode /\ c.userId = c.apiServer}
    /\ userVotes = <<>>
    /\ userComments = <<>>
    /\ voteResult = None
    /\ loadOutcome = None
    /\ clock = 0
    /\ recoverRuns = <<>>
    /\ requests = <<>>
    /\ calls = 0
    /\ InitIdleDialog
    /\ InitIdleMatch
    /\ InitIdleInfer
    /\ InitIdleApp
    /\ csvRows = <<>>
    /\ InitIdleParse
    /\ InitIdleHex

NextVotes ==
    \/ loadVotesAndComments
    \/ \E projectId \in ProjectIds : upvote(projectId)
    \/ \E projectId \in ProjectIds : downvote(projectId)
    \/ \E projectId \in ProjectIds, comment \in CommentInputs :
          addComment(projectId, comment)

SpecVotes == InitVotes /\ [][NextVotes]_vars

\* what a vote call leaves: the returned value is the vote now held, one of
\* 'up', 'down' and null, and no other project's vote moved
VoteReturned(projectId) ==
    /\ voteResult'[1] = projectId
    /\ voteResult'[2] = getVote(userVotes', projectId)
    /\ voteResult'[2] \in {Some(Up), Some(Down), None}
    /\ \A other \in ProjectIds \ {projectId} :
          getVote(userVotes', other) = getVote(userVotes, other)

\* C23: for every project, upvote sets the vote to 'up' unless it is 'up'
\* already and then clears it, downvote sets it to 'down' unless it is
\* 'down' already and then clears it; the call returns the new vote, which
\* is what getVote gives afterwards and is 'up', 'down' or null; the votes
\* of the other projects stay as they were
Thm_C23 ==
    [][\A projectId \in ProjectIds :
          /\ upvote(projectId) =>
                /\ getVote(userVotes', projectId) =
                      IF getVote(userVotes, projectId) = Some(Up)
                      THEN None ELSE Some(Up)
                /\ VoteReturned(projectId)
          /\ downvote(projectId) =>
                /\ getVote(userVotes', projectId) =
                      IF getVote(userVotes, projectId) = Some(Down)
                      THEN None ELSE Some(Down)
                /\ VoteReturned(projectId)]_vars

\* a vote on p1 was toggled off while p2 holds a downvote
Wit_C23 ==
    /\ voteResult # None
    /\ voteResult[1] = <<"p", "1">>
    /\ voteResult[2] = None
    /\ getVote(userVotes, <<"p", "2">>) = Some(Down)

\* a reload gives back the vote and the comment list of every project
Restored ==
    \A projectId \in ProjectIds :
       /\ getVote(userVotes', projectId) = getVote(userVotes, projectId)
       /\ getComments(userComments', projectId) =
             getComments(userComments, projectId)

\* C24: after any upvote, downvote and addComment calls a reload by
\* loadVotesAndComments restores from the cookies the vote and the comment
\* list of every project, and a cookie that cannot be parsed gives empty
\* votes or comments, never an error
Claim_C24 ==
    [][loadVotesAndComments =>
          /\ loadOutcome' = Some("ok")
          /\ loadOutcome = Some("ok") => Restored]_vars

\* a text addComment refuses: null, empty or white space only
Refused(comment) ==
    \/ comment = None
    \/ \A i \in 1..Len(comment[1]) : comment[1][i] \in Whitespace

\* the comment list of projectId grew by one comment at its end, holding
\* the text without the white space around it
AppendedAtEnd(projectId, comment) ==
    LET before == getComments(userComments, projectId)
        after == getComments(userComments', projectId)
        added == after[Len(after)]
    IN  /\ Len(after) = Len(before) + 1
        /\ SubSeq(after, 1, Len(before)) = before
        /\ added.text = trim(comment[1])
        /\ added.text[1] \notin Whitespace
        /\ added.text[Len(added.text)] \notin Whitespace
        /\ added.timestamp = IsoTime(clock)

\* C25: addComment with a null, empty or white-space-only text changes
\* nothing; with any other text it appends the trimmed text at the end of
\* the project's list, so getComments gives the accepted comments in the
\* order they were added, and the comments of the other projects stay as
\* they were; hasComments is true exactly when the list is not empty
Thm_C25 ==
    /\ [](\A projectId \in ProjectIds :
             hasComments(userComments, projectId) <=>
                getComments(userComments, projectId) # <<>>)
    /\ [][\A projectId \in ProjectIds, comment \in CommentInputs :
             addComment(projectId, comment) =>
                /\ Refused(comment) =>
                      UNCHANGED <<userComments, userVotes, cookieJar>>
                /\ ~Refused(comment) =>
                      /\ AppendedAtEnd(projectId, comment)
                      /\ \A other \in ProjectIds \ {projectId} :
                            getComments(userComments', other) =
                               getComments(userComments, other)]_vars

\* p1 holds two accepted comments in the order they were added while p2
\* keeps its comment of an earlier visit
Wit_C25 ==
    LET list == getComments(userComments, <<"p", "1">>)
    IN  /\ Len(list) = 2
        /\ list[1].text = <<"o", "k">>
        /\ list[2].text = <<"\"", ";", "%", "=", "\\">>
        /\ hasComments(userComments, <<"p", "2">>)
        /\ getComments(userComments, <<"p", "2">>)[1].text = <<"o", "l", "d">>

----------------------------------------------------------------------------
(* recoverVotesToServer: the votes held are POSTed again one by one; the   *)
(* function is suspended while a POST is in flight                         *)

MaxCalls == 2

\* the (projectId, apiVote) pairs of Object.entries(userVotes) that the loop
\* POSTs: 1 for 'up', -1 for 'down', nothing for any other value
RECURSIVE Posts(_)
Posts(entries) ==
    IF entries = <<>> THEN <<>>
    ELSE LET vote == entries[1][2]
             apiVote == IF vote = Some(Up) THEN 1
                        ELSE IF vote = Some(Down) THEN -1 ELSE 0
         IN  (IF apiVote # 0 THEN <<(<<entries[1][1], apiVote>>)>> ELSE <<>>)
                \o Posts(Tail(entries))

\* getCookie(getVotesRecoveredCookieName()) is truthy
Recovered(jar) == TruthyStr(getCookie(RECOVERED_COOKIE_NAME, jar).value)

\* the locals of a call that has returned
Returned(successCount, failCount) ==
    [pending |-> <<>>, successCount |-> successCount,
     failCount |-> failCount, done |-> TRUE]

Post(k, entry) ==
    [by |-> k, item |-> entry[1], vote |-> entry[2], outcome |-> "sent"]

\* a call of recoverVotesToServer() up to its first await or its return
recoverVotesToServer ==
    /\ calls < MaxCalls
    /\ calls' = calls + 1
    /\ LET k == Len(recoverRuns) + 1
           posts == Posts(userVotes)
       IN  IF \/ ~apiConfig.apiServer
              \/ getCookie(RECOVERED_COOKIE_NAME, cookieJar).threw
              \/ Recovered(cookieJar)
              \/ ~apiConfig.userId
           THEN /\ recoverRuns' = Append(recoverRuns, Returned(0, 0))
                /\ UNCHANGED <<cookieJar, requests>>
           ELSE IF Len(userVotes) = 0 \/ posts = <<>>
           THEN /\ recoverRuns' = Append(recoverRuns, Returned(0, 0))
                /\ cookieJar' = setCookie(cookieJar, RECOVERED_COOKIE_NAME,
                                          True)
                /\ UNCHANGED requests
           ELSE /\ recoverRuns' =
                      Append(recoverRuns,
                             [pending |-> Tail(posts), successCount |-> 0,
                              failCount |-> 0, done |-> FALSE])
                /\ requests' = Append(requests, Post(k, posts[1]))
                /\ UNCHANGED cookieJar
    /\ UNCHANGED <<userVotes, userComments, voteResult, loadOutcome, clock,
                   apiConfig>>
    /\ UNCHANGED <<coreVars, dialogVars>>

\* what the server or the network answers to a POST
Outcomes == {"ok", "http error", "network error"}

\* a run that marks the votes as recovered whatever the POSTs gave
RecoverResponseAlwaysMarks(k, outcome) ==
    /\ k \in 1..Len(recoverRuns)
    /\ ~recoverRuns[k].done
    /\ LET run == recoverRuns[k]
           i == CHOOSE i \in 1..Len(requests) :
                   requests[i].by = k /\ requests[i].outcome = "sent"
           successCount == run.successCount + (IF outcome = "ok" THEN 1 ELSE 0)
           failCount == run.failCount + (IF outcome = "ok" THEN 0 ELSE 1)
           answered == [requests EXCEPT ![i].outcome = outcome]
       IN  IF run.pending # <<>>
           THEN /\ requests' = Append(answered, Post(k, run.pending[1]))
                /\ recoverRuns' =
                      [recoverRuns EXCEPT
                          ![k] = [pending |-> Tail(run.pending),
                                  successCount |-> successCount,
                                  failCount |-> failCount, done |-> FALSE]]
                /\ UNCHANGED cookieJar
           ELSE /\ requests' = answered
                /\ recoverRuns' =
                      [recoverRuns EXCEPT
                          ![k] = Returned(successCount, failCount)]
                /\ cookieJar' = setCookie(cookieJar, RECOVERED_COOKIE_NAME,
                                          True)
    /\ UNCHANGED <<userVotes, userComments, voteResult, loadOutcome, clock,
                   apiConfig, calls>>
    /\ UNCHANGED <<coreVars, dialogVars>>

\* the POST in flight of run k is answered: the counters move, then the
\* loop sends the next POST or the function ends and marks the recovery
RecoverResponse(k, outcome) ==
    /\ k \in 1..Len(recoverRuns)
    /\ ~recoverRuns[k].done
    /\ LET run == recoverRuns[k]
           i == CHOOSE i \in 1..Len(requests) :
                   requests[i].by = k /\ requests[i].outcome = "sent"
           successCount == run.successCount + (IF outcome = "ok" THEN 1 ELSE 0)
           failCount == run.failCount + (IF outcome = "ok" THEN 0 ELSE 1)
           answered == [requests EXCEPT ![i].outcome = outcome]
       IN  IF run.pending # <<>>
           THEN /\ requests' = Append(answered, Post(k, run.pending[1]))
                /\ recoverRuns' =
                      [recoverRuns EXCEPT
                          ![k] = [pending |-> Tail(run.pending),
                                  successCount |-> successCount,
                                  failCount |-> failCount, done |-> FALSE]]
                /\ UNCHANGED cookieJar
           ELSE /\ requests' = answered
                /\ recoverRuns' =
                      [recoverRuns EXCEPT
                          ![k] = Returned(successCount, failCount)]
                /\ cookieJar' =
                      IF successCount > 0 \/ failCount = 0
                      THEN setCookie(cookieJar, RECOVERED_COOKIE_NAME, True)
                      ELSE cookieJar
    /\ UNCHANGED <<userVotes, userComments, voteResult, loadOutcome, clock,
                   apiConfig, calls>>
    /\ UNCHANGED <<coreVars, dialogVars>>

\* the cookies found when the page opens
RecoverJars ==
    {<<>>,
     setCookie(<<>>, VOTES_COOKIE_NAME,
               StringifyVotes(<<<<(<<"p", "1">>), Some(Up)>>,
                                <<(<<"p", "2">>), Some(Down)>>>>)),
     setCookie(<<>>, VOTES_COOKIE_NAME,
               StringifyVotes(<<<<(<<"p", "2">>), None>>>>)),
     setCookie(setCookie(<<>>, VOTES_COOKIE_NAME,
                         StringifyVotes(<<<<(<<"p", "1">>), Some(Up)>>>>)),
               RECOVERED_COOKIE_NAME, True),
     <<Cookie(RECOVERED_COOKIE_NAME, <<>>),
       Cookie(VOTES_COOKIE_NAME,
              encodeURIComponent(
                 StringifyVotes(<<<<(<<"p", "2">>), Some(Down)>>>>)))>>}

InitRecover ==
    /\ cookieJar \in RecoverJars
    /\ apiConfig \in {c \in ApiConfigs : ~c.debugMode}
    /\ userVotes = <<>>
    /\ userComments = <<>>
    /\ voteResult = None
    /\ loadOutcome = None
    /\ clock = 0
    /\ recoverRuns = <<>>
    /\ requests = <<>>
    /\ calls = 0
    /\ InitIdleDialog
    /\ InitIdleMatch
    /\ InitIdleInfer
    /\ InitIdleApp
    /\ csvRows = <<>>
    /\ InitIdleParse
    /\ InitIdleHex

NextRecover ==
    \/ loadVotesAndComments
    \/ recoverVotesToServer
    \/ \E k \in 1..MaxCalls + 1, outcome \in Outcomes :
          RecoverResponse(k, outcome)

SpecRecover == InitRecover /\ [][NextRecover]_vars

\* run k sent no POST
NoPostBy(k, log) == \A i \in 1..Len(log) : log[i].by # k

\* a POST of run k succeeded
SomePostOk(k, log) ==
    \E i \in 1..Len(log) : log[i].by = k /\ log[i].outcome = "ok"

\* run k sent a POST and each of them failed
EveryPostFailed(k, log) ==
    /\ ~NoPostBy(k, log)
    /\ \A i \in 1..Len(log) :
          log[i].by = k => log[i].outcome \in Outcomes \ {"ok"}

\* C27: recoverVotesToServer recovers once: a call made while the
\* votes_recovered cookie is set sends no request, and the cookie stays set;
\* the cookie becomes set only by a run of which a POST succeeded or which
\* had no vote to POST; a run whose POSTs all failed leaves the cookie
\* unset, and the next call with the server, the user and the same votes
\* POSTs again
Thm_C27 ==
    [][/\ Recovered(cookieJar) =>
             /\ Recovered(cookieJar')
             /\ recoverVotesToServer => requests' = requests
       /\ (~Recovered(cookieJar) /\ Recovered(cookieJar')) =>
             \E k \in 1..Len(recoverRuns') :
                /\ recoverRuns'[k].done
                /\ k \in 1..Len(recoverRuns) => ~recoverRuns[k].done
                /\ SomePostOk(k, requests') \/ NoPostBy(k, requests')
       /\ \A k \in 1..Len(recoverRuns) :
             (/\ ~recoverRuns[k].done
              /\ recoverRuns'[k].done
              /\ EveryPostFailed(k, requests')) =>
                cookieJar' = cookieJar
       /\ (/\ recoverVotesToServer
           /\ \E k \in 1..Len(recoverRuns) :
                 recoverRuns[k].done /\ EveryPostFailed(k, requests)
           /\ ~Recovered(cookieJar)
           /\ apiConfig.apiServer /\ apiConfig.userId
           /\ Posts(userVotes) # <<>>) =>
             /\ Len(requests') = Len(requests) + 1
             /\ requests'[Len(requests')].by = Len(recoverRuns')]_vars

\* the two POSTs of the first call failed and the cookie stayed unset; the
\* second call POSTed both votes again, one arrived, and the cookie is set
Wit_C27 ==
    /\ Len(recoverRuns) = 2
    /\ recoverRuns[1].done /\ recoverRuns[2].done
    /\ Len(requests) = 4
    /\ EveryPostFailed(1, requests)
    /\ requests[3].by = 2 /\ requests[3].outcome = "http error"
    /\ requests[4].by = 2 /\ requests[4].outcome = "ok"
    /\ Recovered(cookieJar)

====
